---- MODULE Spec2Model ----
(***************************************************************************)
(* Model of the paginated data-acquisition layer of Godot-Analysis:        *)
(*   - the month slicers (iso_month_slices / month_slices / dtrange_months)*)
(*   - the retrying transports (GH._request_with_retries, GH._get)         *)
(*   - the checkpoint store (cp_save / cp_load)                            *)
(*   - the range splitter (adaptive_search_range, search_count,            *)
(*     search_items)                                                       *)
(*   - the checkpointed job of project_health_metrics.main                 *)
(* Each component has its own specification; the variables of the other    *)
(* components stay at their idle values.                                   *)
(***************************************************************************)
EXTENDS Integers, Sequences, FiniteSets, TLC

VARIABLES
    \* ---- month slicer ----
    sl_impl,      \* which implementation runs: "list" or "gen"
    sl_start,     \* argument start (a date)
    sl_end,       \* argument end (a date)
    sl_months,    \* argument months_per_slice
    cur,          \* local cur
    out,          \* the list returned / the pairs yielded so far
    sl_pc         \* "idle", "loop", "returned"

sliceVars == <<sl_impl, sl_start, sl_end, sl_months, cur, out, sl_pc>>

VARIABLES
    \* ---- transport (one call of GH._request_with_retries / GH._get) ----
    tr_impl,      \* "username" (bot_filter_username) or "email" (dedupe_email)
    max_retries,  \* self.max_retries
    attempt,      \* local attempt / tries
    resp,         \* the last response received
    tr_pc,        \* "idle", "request", "returned", "raised"
    n403,         \* history: rate-limited 403 responses received so far
    n5xx,         \* history: 5xx responses received so far
    tr_sleep      \* history: the last time.sleep of the retry loop: why, seconds
                  \* (without the random jitter), and for a rate-limit wait the
                  \* X-RateLimit-Reset header and the clock it was computed from

transportVars == <<tr_impl, max_retries, attempt, resp, tr_pc, n403, n5xx, tr_sleep>>

VARIABLES
    \* ---- checkpoint store (cp_save / cp_load on the files of the job) ----
    fs,           \* the directory: file name -> text (a sequence of characters) or NoFile
    st_pc,        \* "idle", "called", "writing", "closed", "crashed"
    st_name,      \* argument name of the cp_save in progress (or of the last one)
    st_data,      \* argument data of the cp_save in progress (or of the last one)
    st_written,   \* characters of json.dump's output already in the file
    st_last,      \* history: stage -> payload of the last cp_save that reached os.replace
    st_prev,      \* history: st_last[st_name] when the cp_save in progress was called
    st_loaded,    \* what the last cp_load returned: <<name, default, value>>
    st_saves,     \* number of cp_save calls so far
    st_crashes    \* number of kills so far

storeVars == <<fs, st_pc, st_name, st_data, st_written, st_last, st_prev,
               st_loaded, st_saves, st_crashes>>

VARIABLES
    \* ---- range splitter (adaptive_search_range of contributor_buckets) ----
    recs,         \* the server: day -> number of matching records created that day
    sp_start,     \* argument start (a day number)
    sp_end,       \* argument end (exclusive)
    work,         \* pending _recurse calls, next first: <<a, b>> ranges
    leaf,         \* the range search_items is running on, or <<>>
    page,         \* local page of search_items
    yielded,      \* records yielded so far: runs <<day, first, last>> in yield order
    leaves,       \* history: ranges handed to search_items
    nsplits,      \* history: number of splits
    sp_log,       \* history: the kinds of message written with tqdm.write / print:
                  \* "retry" (a rate-limit or server-error notice), "progress"
    sp_pc         \* "idle", "run", "done", "raised"

splitVars == <<recs, sp_start, sp_end, work, leaf, page, yielded, leaves, nsplits,
               sp_log, sp_pc>>

VARIABLES
    \* ---- the checkpointed job (main of project_health_metrics) ----
    srv,          \* the server: records per slice, fixed during the job
    cpfile,       \* stage -> [exists, data]: the checkpoint files on disk
    mem,          \* stage -> the stage's accumulated result in memory
    jpc,          \* the stage main is in, or "finish", "done", "stopped"
    jphase,       \* "load" (before cp_load) or "fetch" (in the fetch loop)
    si,           \* index of the slice / of the merged PR being fetched
    jpage,        \* local page of paged
    stops,        \* history: number of abnormal ends (kills, uncaught errors)
    cp_done,      \* history: stages whose checkpoint on disk was written by a completed run of the stage
    refetch,      \* history: stages fetched again although in cp_done
    midkill       \* history: sliced stages killed after a slice was checkpointed

jobVars == <<srv, cpfile, mem, jpc, jphase, si, jpage, stops, cp_done, refetch, midkill>>

VARIABLES
    \* ---- the paginators ----
    pg_impl,      \* which paginator runs
    pg_total,     \* the server: number of records of the listing
    pg_down,      \* the server: TRUE when it answers every request with a 5xx
    pg_pc,        \* "request", "sleep", "done" (sequence ended), "raised"
    pg_page,      \* local page
    pg_att,       \* attempt of GH._request_with_retries for the current request
    pg_out,       \* history: the pages yielded, <<page, number of records>>
    pg_reqs,      \* history: requests sent, counted up to MaxCounted
    pg_last,      \* history: status of the last response, 0 before the first
    pg_body,      \* history: JSON type of the last 200 body, "none" otherwise
    pg_faults     \* history: responses other than 200, counted up to MaxPgFaults

pagerVars == <<pg_impl, pg_total, pg_down, pg_pc, pg_page, pg_att, pg_out, pg_reqs,
               pg_last, pg_body, pg_faults>>

VARIABLES
    \* ---- contributor collection (collect_contributors of bot_filter_username) ----
    human_logins,     \* set of logins
    bot_logins,       \* set of logins
    email_to_logins,  \* email -> set of logins; {} for an email that is not a key
    dd_emails,        \* the keys of email_to_logins in insertion order
    alias_map,        \* login -> canonical login; a login that is not a key maps to itself
    final_logins,     \* set of logins
    dd_n,             \* history: commits processed so far
    dd_pc             \* "idle", "commits", "returned"

VARIABLES
    scan_prs,               \* review stage: number of pull requests to scan
    reviewed,               \* review stage: a pull request rv_idx has a maintainer response iff rv_idx % reviewed = 0
    cp_review_done_idx,     \* file .ph_checkpoint_review_done_idx.json (0: absent)
    cp_review_hours,        \* file .ph_checkpoint_review_hours.json (<<>>: absent)
    rv_idx,                    \* loop variable of the review loop
    pr_first_review_hours,  \* list in memory; a sample is named by the index of its pull request
    rv_kills,               \* history: kills so far
    rv_pc                   \* "off", "loop", "save_idx", "save_hours", "end_idx", "end_hours", "done"

VARIABLES
    commits_by,             \* buckets: login -> commits in the window (0: no key)
    merged_prs_by,          \* buckets: login -> merged pull requests in the window (0: no key)
    historical_before_since,\* buckets: logins seen before the window
    rows,                   \* buckets: set of <<login, bucket>> rows written so far
    bucket_counts,          \* buckets: bucket -> count
    dormant_users,          \* buckets: historical logins without activity in the window
    bk_pc                   \* "idle", "classify", "done"

bucketVars == <<commits_by, merged_prs_by, historical_before_since, rows, bucket_counts,
                dormant_users, bk_pc>>

reviewVars == <<scan_prs, reviewed, cp_review_done_idx, cp_review_hours, rv_idx,
                pr_first_review_hours, rv_kills, rv_pc>>

dedupeVars == <<human_logins, bot_logins, email_to_logins, dd_emails, alias_map,
                final_logins, dd_n, dd_pc>>

vars == <<sliceVars, transportVars, storeVars, splitVars, jobVars, pagerVars, dedupeVars, reviewVars, bucketVars>>

\* the variables each component leaves alone
notSlice == <<transportVars, storeVars, splitVars, jobVars, pagerVars, dedupeVars, reviewVars, bucketVars>>
notTransport == <<sliceVars, storeVars, splitVars, jobVars, pagerVars, dedupeVars, reviewVars, bucketVars>>
notStore == <<sliceVars, transportVars, splitVars, jobVars, pagerVars, dedupeVars, reviewVars, bucketVars>>
notSplit == <<sliceVars, transportVars, storeVars, jobVars, pagerVars, dedupeVars, reviewVars, bucketVars>>
notJob == <<sliceVars, transportVars, storeVars, splitVars, pagerVars, dedupeVars, reviewVars, bucketVars>>
notPager == <<sliceVars, transportVars, storeVars, splitVars, jobVars, dedupeVars, reviewVars, bucketVars>>
notDedupe == <<sliceVars, transportVars, storeVars, splitVars, jobVars, pagerVars, reviewVars, bucketVars>>
notReview == <<sliceVars, transportVars, storeVars, splitVars, jobVars, pagerVars, dedupeVars, bucketVars>>
notBucket == <<sliceVars, transportVars, storeVars, splitVars, jobVars, pagerVars, dedupeVars, reviewVars>>

(***************************************************************************)
(* Bounds                                                                  *)
(***************************************************************************)
MaxMonths == 3

Min(a, b) == IF a <= b THEN a ELSE b
Max(a, b) == IF a >= b THEN a ELSE b

(***************************************************************************)
(* Dates (datetime.date): year, month, day.  A datetime at time.min is     *)
(* represented by its date.                                                *)
(***************************************************************************)
Years == {2023, 2024}
MonthsOfYear == 1..12
DaysUsed == {1, 15}

Date(y, m, d) == [year |-> y, month |-> m, day |-> d]
Dates == {Date(y, m, d) : y \in Years, m \in MonthsOfYear, d \in DaysUsed}

DateLT(a, b) ==
    \/ a.year < b.year
    \/ a.year = b.year /\ a.month < b.month
    \/ a.year = b.year /\ a.month = b.month /\ a.day < b.day

DateLE(a, b) == a = b \/ DateLT(a, b)
\* mutant: min(nxt, end1) does not clip
DateMinNoClip(a, b) == a

DateMin(a, b) == IF DateLT(b, a) THEN b ELSE a

\* dt.date(d.year, d.month, 1)
FirstOfMonth(d) == Date(d.year, d.month, 1)

\* mutant: the step is one month whatever months_per_slice is
AddMonthsOne(c, months) ==
    LET m == c.month
        y == c.year + (m \div 12)
    IN  Date(y, (m % 12) + 1, 1)

\* mutant: the year is not carried when the month wraps
AddMonthsNoCarry(c, months) ==
    LET m == c.month - 1 + months
    IN  Date(c.year, (m % 12) + 1, 1)

\* m = cur.month - 1 + months; y = cur.year + m // 12; m = m % 12 + 1;
\* nxt = dt.date(y, m, 1)
AddMonths(c, months) ==
    LET m == c.month - 1 + months
        y == c.year + (m \div 12)
    IN  Date(y, (m % 12) + 1, 1)

\* mutant: the month of end is sliced too
end_firstInclusive ==
    Date(sl_end.year + (sl_end.month \div 12), (sl_end.month % 12) + 1, 1)

end_first == FirstOfMonth(sl_end)

\* e - dt.timedelta(days=1): the calendar day before d
PrevDay(d) ==
    LET leap == (d.year % 4 = 0 /\ d.year % 100 # 0) \/ d.year % 400 = 0
        len(m) == IF m = 2 THEN (IF leap THEN 29 ELSE 28)
                  ELSE IF m \in {4, 6, 9, 11} THEN 30 ELSE 31
    IN  IF d.day > 1 THEN Date(d.year, d.month, d.day - 1)
        ELSE IF d.month > 1 THEN Date(d.year, d.month - 1, len(d.month - 1))
        ELSE Date(d.year - 1, 12, 31)

\* The created: qualifier a script builds for the slice (s, e), s and e being
\* datetimes at time.min.  A bound is [date, hour]; hour = -1 stands for a
\* bound printed without a time part.
\*   "isoformat": created:{s.isoformat()}..{(e - 1 day).isoformat()}
\*                s.isoformat() of a datetime prints YYYY-MM-DDT00:00:00
\*   "date":      created:{s.date()}..{(e - 1 day).date()}
CreatedQuery(form, s, e) ==
    LET fmt(d) == [date |-> d, hour |-> IF form = "isoformat" THEN 0 ELSE -1]
    IN  [from |-> fmt(s), to |-> fmt(PrevDay(e))]

SliceIdle ==
    /\ sl_impl = "none"
    /\ sl_start = Date(2023, 1, 1)
    /\ sl_end = Date(2023, 1, 1)
    /\ sl_months = 1
    /\ cur = Date(2023, 1, 1)
    /\ out = <<>>
    /\ sl_pc = "idle"

\* entry of the slicer: cur = first of start's month, out = []
SliceInit ==
    /\ sl_impl \in {"list", "gen", "single"}
    /\ sl_start \in Dates
    /\ sl_end \in Dates
    /\ sl_months \in IF sl_impl = "single" THEN {1} ELSE 1..MaxMonths
    /\ cur = FirstOfMonth(sl_start)
    /\ out = <<>>
    /\ sl_pc = "loop"

\* one iteration of `while cur < end_first`, list-building variant
\* (iso_month_slices, month_slices of contributor_buckets / dedupe_email /
\* bot_filter_pattern): nxt is clipped, appended, and becomes cur
SliceStepList ==
    /\ sl_pc = "loop"
    /\ sl_impl = "list"
    /\ DateLT(cur, end_first)
    /\ LET n0 == AddMonths(cur, sl_months)
           nxt == IF DateLT(end_first, n0) THEN end_first ELSE n0
       IN  /\ out' = Append(out, <<cur, nxt>>)
           /\ cur' = nxt
    /\ UNCHANGED <<sl_impl, sl_start, sl_end, sl_months, sl_pc>>
    /\ UNCHANGED notSlice

\* one iteration, generator variant (month_slices of bucket_activity,
\* dtrange_months): yields (cur, min(nxt, end1)), cur becomes the unclipped nxt
SliceStepGen ==
    /\ sl_pc = "loop"
    /\ sl_impl = "gen"
    /\ DateLT(cur, end_first)
    /\ LET nxt == AddMonths(cur, sl_months)
       IN  /\ out' = Append(out, <<cur, DateMin(nxt, end_first)>>)
           /\ cur' = nxt
    /\ UNCHANGED <<sl_impl, sl_start, sl_end, sl_months, sl_pc>>
    /\ UNCHANGED notSlice

\* one iteration of the single-month generator of dedupe_profile:
\* nxt = date(cur.year+1, 1, 1) if cur.month == 12 else
\* date(cur.year, cur.month+1, 1); yields (cur, min(nxt, end1)); cur = nxt
SliceStepSingle ==
    /\ sl_pc = "loop"
    /\ sl_impl = "single"
    /\ DateLT(cur, end_first)
    /\ LET nxt == IF cur.month = 12 THEN Date(cur.year + 1, 1, 1)
                  ELSE Date(cur.year, cur.month + 1, 1)
       IN  /\ out' = Append(out, <<cur, DateMin(nxt, end_first)>>)
           /\ cur' = nxt
    /\ UNCHANGED <<sl_impl, sl_start, sl_end, sl_months, sl_pc>>
    /\ UNCHANGED notSlice

\* loop exit: return out / the generator is exhausted
SliceReturn ==
    /\ sl_pc = "loop"
    /\ ~DateLT(cur, end_first)
    /\ sl_pc' = "returned"
    /\ UNCHANGED <<sl_impl, sl_start, sl_end, sl_months, cur, out>>
    /\ UNCHANGED notSlice

NextSlice ==
    \/ SliceStepList
    \/ SliceStepGen
    \/ SliceStepSingle
    \/ SliceReturn

(***************************************************************************)
(* Transport: GH._request_with_retries (bot_filter_username) and GH._get   *)
(* (dedupe_email).  One call; the server's answers are the environment.    *)
(***************************************************************************)
MaxRateLimited == 7
MaxBackoffs == 8

DefaultMaxRetriesUsername == 6
DefaultMaxRetriesEmail == 5

\* a response: its status code and whether the body says "rate limit"
Resp(st, rl) == [status |-> st, ratelimit |-> rl]
NoResp == Resp(0, FALSE)
Responses ==
    {Resp(200, FALSE), Resp(403, TRUE), Resp(403, FALSE), Resp(404, FALSE),
     Resp(422, FALSE), Resp(500, FALSE), Resp(503, FALSE)}

\* resp.status_code == 403 and "rate limit" in resp.text.lower()
IsRateLimited(r) == r.status = 403 /\ r.ratelimit

\* mutant: a 4xx is retried like a 5xx
RequestWithRetriesStepRetry4xx(r, att, maxr) ==
    IF IsRateLimited(r) THEN "wait"
    ELSE IF r.status >= 400 /\ att <= maxr THEN "backoff"
    ELSE IF r.status >= 400 /\ r.status < 500 THEN "raise"
    ELSE "return"

\* what one iteration does with response r once attempt has been incremented:
\* "wait" (rate-limit sleep, continue), "backoff" (5xx sleep, continue),
\* "raise", "return"
RequestWithRetriesStep(r, att, maxr) ==
    IF IsRateLimited(r) THEN "wait"
    ELSE IF r.status >= 500 /\ att <= maxr THEN "backoff"
    ELSE IF r.status >= 400 /\ r.status < 500 THEN "raise"
    ELSE "return"

\* dedupe_email GH._get: r.raise_for_status() raises on every status >= 400
GetStep(r, att, maxr) ==
    IF IsRateLimited(r) THEN "wait"
    ELSE IF r.status >= 500 /\ att <= maxr THEN "backoff"
    ELSE IF r.status >= 400 THEN "raise"
    ELSE "return"

\* project_health_metrics get_json: a 5xx is retried without a bound (the
\* loop has no attempt counter: att and maxr are not used)
GetJsonStep(r, att, maxr) ==
    IF IsRateLimited(r) THEN "wait"
    ELSE IF r.status >= 500 THEN "backoff"
    ELSE IF r.status >= 400 THEN "raise"
    ELSE "return"

\* mutant: the wait ends at the reset instant, without the extra second
RateLimitWaitNoMargin(reset, now) == Max(5, reset - now)

\* wait = max(5, reset - now + 1)
RateLimitWait(reset, now) == Max(5, reset - now + 1)

\* the values the backoff can take before the jitter is added, at attempt
\* att of the loop:
\*   GH._request_with_retries: min(30, 2 ** (attempt - 1))
\*   GH._get (dedupe_email):   min(30, 2**tries)
\*   get_json:                 min(30, 2**random.randint(0,5))
Backoff(impl, att) ==
    IF impl = "username" THEN {Min(30, 2^(att - 1))}
    ELSE IF impl = "email" THEN {Min(30, 2^att)}
    ELSE {Min(30, 2^k) : k \in 0..5}

TransportStep(r, att) ==
    IF tr_impl = "username"
    THEN RequestWithRetriesStep(r, att, max_retries)
    ELSE IF tr_impl = "email"
    THEN GetStep(r, att, max_retries)
    ELSE GetJsonStep(r, att, max_retries)

TransportIdle ==
    /\ tr_impl = "none"
    /\ max_retries = 0
    /\ attempt = 0
    /\ resp = NoResp
    /\ tr_pc = "idle"
    /\ n403 = 0
    /\ n5xx = 0
    /\ tr_sleep = [why |-> "none", secs |-> 0, reset |-> 0, now |-> 0]

\* GH(token, max_retries=...) then the entry of one call: attempt = 0.
\* bot_filter_username takes --max-retries (default 6); dedupe_email always
\* uses the default 5; get_json has no retry budget (max_retries stays 0
\* and attempt counts its loop iterations).
TransportInit ==
    /\ tr_impl \in {"username", "email", "get_json"}
    /\ max_retries \in IF tr_impl = "username"
                       THEN {0, 1, 2, DefaultMaxRetriesUsername}
                       ELSE IF tr_impl = "email" THEN {DefaultMaxRetriesEmail}
                       ELSE {0}
    /\ attempt = 0
    /\ resp = NoResp
    /\ tr_pc = "request"
    /\ n403 = 0
    /\ n5xx = 0
    /\ tr_sleep = [why |-> "none", secs |-> 0, reset |-> 0, now |-> 0]

\* history counters of the responses received
Count403(r) == IF IsRateLimited(r) THEN n403 + 1 ELSE n403
Count5xx(r) == IF r.status >= 500 THEN n5xx + 1 ELSE n5xx

\* attempt += 1; send; rate-limited 403: sleep until the reset, continue.
\* reset is int(headers.get("X-RateLimit-Reset", "0")), 0 when the header is
\* missing; now is int(time.time()).
TrRateLimited ==
    /\ tr_pc = "request"
    /\ n403 < MaxRateLimited
    /\ \E r \in Responses :
          /\ TransportStep(r, attempt + 1) = "wait"
          /\ resp' = r
          /\ n403' = Count403(r)
          /\ n5xx' = Count5xx(r)
    /\ \E reset \in {0, 990, 1000, 1003, 1004, 1005, 1060}, now \in {1000, 1001} :
          tr_sleep' = [why |-> "rate limit", secs |-> RateLimitWait(reset, now),
                       reset |-> reset, now |-> now]
    /\ attempt' = attempt + 1
    /\ UNCHANGED <<tr_impl, max_retries, tr_pc>>
    /\ UNCHANGED notTransport

\* attempt += 1; send; 5xx within the budget: backoff sleep, continue
TrBackoff ==
    /\ tr_pc = "request"
    /\ n5xx < MaxBackoffs
    /\ \E r \in Responses :
          /\ TransportStep(r, attempt + 1) = "backoff"
          /\ resp' = r
          /\ n403' = Count403(r)
          /\ n5xx' = Count5xx(r)
    /\ \E secs \in Backoff(tr_impl, attempt + 1) :
          tr_sleep' = [why |-> "backoff", secs |-> secs, reset |-> 0, now |-> 0]
    /\ attempt' = attempt + 1
    /\ UNCHANGED <<tr_impl, max_retries, tr_pc>>
    /\ UNCHANGED notTransport

\* attempt += 1; send; the response makes the call raise
TrRaise ==
    /\ tr_pc = "request"
    /\ \E r \in Responses :
          /\ TransportStep(r, attempt + 1) = "raise"
          /\ resp' = r
          /\ n403' = Count403(r)
          /\ n5xx' = Count5xx(r)
    /\ attempt' = attempt + 1
    /\ tr_pc' = "raised"
    /\ UNCHANGED <<tr_impl, max_retries, tr_sleep>>
    /\ UNCHANGED notTransport

\* attempt += 1; send; time.sleep(self.sleep); return resp
TrReturn ==
    /\ tr_pc = "request"
    /\ \E r \in Responses :
          /\ TransportStep(r, attempt + 1) = "return"
          /\ resp' = r
          /\ n403' = Count403(r)
          /\ n5xx' = Count5xx(r)
    /\ attempt' = attempt + 1
    /\ tr_pc' = "returned"
    /\ UNCHANGED <<tr_impl, max_retries, tr_sleep>>
    /\ UNCHANGED notTransport

NextTransport ==
    \/ TrRateLimited
    \/ TrBackoff
    \/ TrRaise
    \/ TrReturn

(***************************************************************************)
(* Checkpoint store: cp_path, cp_save, cp_load (project_health_metrics).   *)
(* Payloads are JSON values: an integer (review_done_idx) or a list of     *)
(* integers; json.dump / json.load work on the text of the file.           *)
(***************************************************************************)
MaxSaves == 2
MaxCrashes == 2

IntVal(n) == <<"int", n>>
ListVal(s) == <<"list">> \o s
ParseError == <<"error">>
NoPayload == <<"none">>
NoFile == <<"nofile">>

Digit == <<"0", "1", "2", "3", "4", "5", "6", "7", "8", "9">>
IsDigit(c) == \E d \in 1..10 : Digit[d] = c
DigitVal(c) == (CHOOSE d \in 1..10 : Digit[d] = c) - 1

\* str(n) for n >= 0
RECURSIVE Digits(_)
Digits(n) == IF n < 10 THEN <<Digit[n + 1]>> ELSE Digits(n \div 10) \o <<Digit[(n % 10) + 1]>>

RECURSIVE JoinInts(_)
JoinInts(s) ==
    IF Len(s) = 0 THEN <<>>
    ELSE IF Len(s) = 1 THEN Digits(s[1])
    ELSE Digits(s[1]) \o <<",", " ">> \o JoinInts(Tail(s))

\* json.dump(data, f): the text written for a payload
Dump(v) ==
    IF v[1] = "int" THEN Digits(v[2])
    ELSE <<"[">> \o JoinInts(Tail(v)) \o <<"]">>

RECURSIVE NumEnd(_, _)
NumEnd(t, i) == IF i <= Len(t) /\ IsDigit(t[i]) THEN NumEnd(t, i + 1) ELSE i

RECURSIVE SkipWs(_, _)
SkipWs(t, i) == IF i <= Len(t) /\ t[i] = " " THEN SkipWs(t, i + 1) ELSE i

RECURSIVE DecVal(_)
DecVal(t) == IF Len(t) = 0 THEN 0 ELSE 10 * DecVal(SubSeq(t, 1, Len(t) - 1)) + DigitVal(t[Len(t)])

\* a JSON number starts at t[i]: no leading zero
NumberAt(t, i) ==
    LET j == NumEnd(t, i)
    IN  j > i /\ (j = i + 1 \/ t[i] # "0")

\* the elements of a JSON array from t[i] on (t[i] is past the "[" or a ","):
\* the list parsed, or ParseError; only white space may follow the "]"
RECURSIVE ParseElems(_, _, _, _)
ParseElems(t, i, acc, first) ==
    IF i > Len(t) THEN ParseError
    ELSE IF first /\ t[i] = "]"
         THEN IF SkipWs(t, i + 1) > Len(t) THEN ListVal(acc) ELSE ParseError
    ELSE IF ~NumberAt(t, i) THEN ParseError
    ELSE LET j == NumEnd(t, i)
             k == SkipWs(t, j)
             a == Append(acc, DecVal(SubSeq(t, i, j - 1)))
         IN  IF k > Len(t) THEN ParseError
             ELSE IF t[k] = "," THEN ParseElems(t, SkipWs(t, k + 1), a, FALSE)
             ELSE IF t[k] = "]"
                  THEN IF SkipWs(t, k + 1) > Len(t) THEN ListVal(a) ELSE ParseError
             ELSE ParseError

\* json.load(f): the value of a text, or ParseError when it raises
Parse(t) ==
    LET i == SkipWs(t, 1)
    IN  IF i > Len(t) THEN ParseError
        ELSE IF t[i] = "[" THEN ParseElems(t, SkipWs(t, i + 1), <<>>, TRUE)
        ELSE IF NumberAt(t, i)
             THEN IF SkipWs(t, NumEnd(t, i)) > Len(t)
                  THEN IntVal(DecVal(SubSeq(t, i, NumEnd(t, i) - 1)))
                  ELSE ParseError
        ELSE ParseError

StoreStages == {"prs", "review_done_idx"}

\* cp_path(name) and tmp = path + ".tmp"
cp_path(name) == <<name, ".json">>
TmpOf(path) == <<path[1], path[2] \o ".tmp">>

\* mutant: the payload is written straight into the checkpoint file
SaveTargetInPlace(name) == cp_path(name)

\* the file cp_save opens for writing
SaveTarget(name) == TmpOf(cp_path(name))

FileNames == {cp_path(n) : n \in StoreStages} \cup {TmpOf(cp_path(n)) : n \in StoreStages}

\* the payloads the job saves under each stage, and the default it loads with
PayloadsOf(name) ==
    IF name = "review_done_idx" THEN {IntVal(7), IntVal(50)}
    ELSE {ListVal(<<>>), ListVal(<<3>>), ListVal(<<3, 12>>)}
DefaultOf(name) == IF name = "review_done_idx" THEN IntVal(0) ELSE ListVal(<<>>)

\* mutant: the exception of json.load is not caught
cp_loadNoCatch(f, name, default) ==
    LET path == cp_path(name)
    IN  IF f[path] # NoFile THEN Parse(f[path]) ELSE default

\* cp_load(name, default) on directory f
cp_load(f, name, default) ==
    LET path == cp_path(name)
    IN  IF f[path] # NoFile
        THEN IF Parse(f[path]) # ParseError THEN Parse(f[path]) ELSE default
        ELSE default

StoreIdle ==
    /\ fs = [n \in FileNames |-> NoFile]
    /\ st_pc = "off"
    /\ st_name = "prs"
    /\ st_data = NoPayload
    /\ st_written = 0
    /\ st_last = [n \in StoreStages |-> NoPayload]
    /\ st_prev = NoPayload
    /\ st_loaded = <<>>
    /\ st_saves = 0
    /\ st_crashes = 0

\* a fresh job directory: no checkpoint file
StoreInit ==
    /\ fs = [n \in FileNames |-> NoFile]
    /\ st_pc = "idle"
    /\ st_name = "prs"
    /\ st_data = NoPayload
    /\ st_written = 0
    /\ st_last = [n \in StoreStages |-> NoPayload]
    /\ st_prev = NoPayload
    /\ st_loaded = <<>>
    /\ st_saves = 0
    /\ st_crashes = 0

\* the texts a checkpoint file may hold when a job starts: written by
\* json.dump, or damaged (empty, cut short, not JSON)
CheckpointTexts ==
    {Dump(IntVal(7)), Dump(ListVal(<<3, 12>>)),
     <<>>, <<"[", "3", ",", " ">>, <<"[", "3", " ", "1", "2", "]">>, <<"0", "5">>}

\* a job starts in a directory left by earlier runs and is about to call
\* cp_load
StoreInitAny ==
    /\ fs \in [FileNames -> CheckpointTexts \cup {NoFile}]
    /\ \A n \in StoreStages : fs[TmpOf(cp_path(n))] = NoFile
    /\ st_pc = "crashed"
    /\ st_name = "prs"
    /\ st_data = NoPayload
    /\ st_written = 0
    /\ st_last = [n \in StoreStages |-> NoPayload]
    /\ st_prev = NoPayload
    /\ st_loaded = <<>>
    /\ st_saves = 0
    /\ st_crashes = 0

\* cp_save(name, data) is entered
SaveCall ==
    /\ st_pc = "idle"
    /\ st_saves < MaxSaves
    /\ \E name \in StoreStages : \E data \in PayloadsOf(name) :
          /\ st_name' = name
          /\ st_data' = data
          /\ st_prev' = st_last[name]
    /\ st_pc' = "called"
    /\ st_written' = 0
    /\ st_loaded' = <<>>
    /\ st_saves' = st_saves + 1
    /\ UNCHANGED <<fs, st_last, st_crashes>>
    /\ UNCHANGED notStore

\* open(tmp, "w"): the file is created or truncated
SaveOpen ==
    /\ st_pc = "called"
    /\ fs' = [fs EXCEPT ![SaveTarget(st_name)] = <<>>]
    /\ st_pc' = "writing"
    /\ UNCHANGED <<st_name, st_data, st_written, st_last, st_prev, st_loaded,
                   st_saves, st_crashes>>
    /\ UNCHANGED notStore

\* json.dump: the next character of the text reaches the file
SaveWrite ==
    /\ st_pc = "writing"
    /\ st_written < Len(Dump(st_data))
    /\ fs' = [fs EXCEPT ![SaveTarget(st_name)] = Append(@, Dump(st_data)[st_written + 1])]
    /\ st_written' = st_written + 1
    /\ UNCHANGED <<st_pc, st_name, st_data, st_last, st_prev, st_loaded,
                   st_saves, st_crashes>>
    /\ UNCHANGED notStore

\* the with block is left: the file is complete and closed
SaveClose ==
    /\ st_pc = "writing"
    /\ st_written = Len(Dump(st_data))
    /\ st_pc' = "closed"
    /\ UNCHANGED <<fs, st_name, st_data, st_written, st_last, st_prev, st_loaded,
                   st_saves, st_crashes>>
    /\ UNCHANGED notStore

\* os.replace(tmp, path): atomic rename; cp_save returns
SaveReplace ==
    /\ st_pc = "closed"
    /\ LET src == SaveTarget(st_name)
           dst == cp_path(st_name)
       IN  fs' = IF src = dst THEN fs
                 ELSE [fs EXCEPT ![dst] = fs[src], ![src] = NoFile]
    /\ st_last' = [st_last EXCEPT ![st_name] = st_data]
    /\ st_pc' = "idle"
    /\ UNCHANGED <<st_name, st_data, st_written, st_prev, st_loaded, st_saves,
                   st_crashes>>
    /\ UNCHANGED notStore

\* the process is killed at any point of cp_save, or between two calls
StoreCrash ==
    /\ st_pc \in {"idle", "called", "writing", "closed"}
    /\ st_crashes < MaxCrashes
    /\ st_pc' = "crashed"
    /\ st_crashes' = st_crashes + 1
    /\ UNCHANGED <<fs, st_name, st_data, st_written, st_last, st_prev, st_loaded,
                   st_saves>>
    /\ UNCHANGED notStore

\* the restarted job calls cp_load(name, default)
StoreLoad ==
    /\ st_pc = "crashed"
    /\ \E name \in StoreStages :
          st_loaded' = <<name, DefaultOf(name), cp_load(fs, name, DefaultOf(name))>>
    /\ st_pc' = "idle"
    /\ UNCHANGED <<fs, st_name, st_data, st_written, st_last, st_prev, st_saves,
                   st_crashes>>
    /\ UNCHANGED notStore

NextStore ==
    \/ SaveCall
    \/ SaveOpen
    \/ SaveWrite
    \/ SaveClose
    \/ SaveReplace
    \/ StoreCrash
    \/ StoreLoad

(***************************************************************************)
(* Range splitter: adaptive_search_range, search_count, search_items       *)
(* (contributor_buckets).  Dates are day numbers counted from the start    *)
(* date (day 1); the server holds recs[d] matching records created on day  *)
(* d and lists the records of a query created:a..b by day, then by         *)
(* position within the day.  It answers 422 only to a page beyond the      *)
(* tenth, which search_items never requests.                               *)
(***************************************************************************)
MaxDays == 5

SearchCap == 1000
PerPage == 100
MaxPage == 10

DayCounts == {0, 50, 500, 1100}

\* total_count of the query created:a..b
RECURSIVE SearchCount(_, _)
SearchCount(a, b) == IF a > b THEN 0 ELSE recs[a] + SearchCount(a + 1, b)

\* the records at positions from..to of the listing of days d..b, as runs
RECURSIVE Segs(_, _, _, _)
Segs(d, b, from, to) ==
    IF d > b \/ to < from THEN <<>>
    ELSE IF from > recs[d] THEN Segs(d + 1, b, from - recs[d], to - recs[d])
    ELSE <<<<d, from, Min(recs[d], to)>>>> \o Segs(d + 1, b, 1, to - recs[d])

\* the items of page p (per_page = 100) of the query created:a..b
PageItems(a, b, p) == Segs(a, b, (p - 1) * PerPage + 1, p * PerPage)

RECURSIVE NumItems(_)
NumItems(segs) ==
    IF segs = <<>> THEN 0 ELSE (Head(segs)[3] - Head(segs)[2] + 1) + NumItems(Tail(segs))

\* runs y followed by runs segs, a run continued where the records are consecutive
RECURSIVE Yield(_, _)
Yield(y, segs) ==
    IF segs = <<>> THEN y
    ELSE LET g == Head(segs)
             l == IF y = <<>> THEN <<0, 0, 0>> ELSE y[Len(y)]
         IN  IF y # <<>> /\ l[1] = g[1] /\ l[3] + 1 = g[2]
             THEN Yield([y EXCEPT ![Len(y)] = <<l[1], l[2], g[3]>>], Tail(segs))
             ELSE Yield(Append(y, g), Tail(segs))

\* search_items(q) run to its end with every request answered 200:
\* the records it yields, from page p on
RECURSIVE SearchItemsFrom(_, _, _)
SearchItemsFrom(a, b, p) ==
    LET items == PageItems(a, b, p)
    IN  IF items = <<>> THEN <<>>
        ELSE IF NumItems(items) < PerPage \/ p >= MaxPage THEN items
        ELSE items \o SearchItemsFrom(a, b, p + 1)

\* mutant: a range of exactly 1000 records is split
NeedsSplitAt1000(total) == total >= SearchCap

\* `if total <= 1000: ... else:`
NeedsSplit(total) == total > SearchCap

\* what search_count can return for created:a..b.  For a range whose end
\* precedes its start the answer is the server's choice: a count within the
\* cap or one over it.
CountOutcomes(a, b) ==
    IF a > b THEN {0, SearchCap + 100} ELSE {SearchCount(a, b)}

\* mutant: the range is cut at its last day, the left half is the range itself
MidAtEnd(a, b) == b

\* mid = a + (b - a) // 2  (timedelta floor division; date + timedelta adds
\* the timedelta's days)
Mid(a, b) == a + ((b - a) \div 2)

\* mutant: the right half starts at mid, the boundary day is in both halves
SubRangesOverlap(a, b) == << <<a, Mid(a, b)>>, <<Mid(a, b), b>> >>

\* mutant: the right half is traversed first
SubRangesRightFirst(a, b) == << <<Mid(a, b) + 1, b>>, <<a, Mid(a, b)>> >>

\* _recurse(a, mid) then _recurse(mid + dt.timedelta(days=1), b)
SubRanges(a, b) == << <<a, Mid(a, b)>>, <<Mid(a, b) + 1, b>> >>

SplitIdle ==
    /\ recs = <<>>
    /\ sp_start = 1
    /\ sp_end = 1
    /\ work = <<>>
    /\ leaf = <<>>
    /\ page = 1
    /\ yielded = <<>>
    /\ leaves = <<>>
    /\ nsplits = 0
    /\ sp_log = {}
    /\ sp_pc = "idle"

\* adaptive_search_range(start, end): the first call is _recurse(start, end - 1 day)
SplitInit ==
    /\ sp_start = 1
    /\ sp_end \in 2..(MaxDays + 1)
    /\ recs \in [sp_start..(sp_end - 1) -> DayCounts]
    /\ work = << <<sp_start, sp_end - 1>> >>
    /\ leaf = <<>>
    /\ page = 1
    /\ yielded = <<>>
    /\ leaves = <<>>
    /\ nsplits = 0
    /\ sp_log = {}
    /\ sp_pc = "run"

\* adaptive_search_range on any pair of dates, start >= end included; a day
\* has no record or more than the cap
SplitInitAny ==
    /\ sp_start = 1
    /\ sp_end \in -1..(MaxDays + 1)
    /\ recs \in [sp_start..(sp_end - 1) -> {0, SearchCap + 100}]
    /\ work = << <<sp_start, sp_end - 1>> >>
    /\ leaf = <<>>
    /\ page = 1
    /\ yielded = <<>>
    /\ leaves = <<>>
    /\ nsplits = 0
    /\ sp_log = {}
    /\ sp_pc = "run"

\* _recurse(a, b), count within the cap: search_items is started on [a, b]
RecurseDelegate ==
    /\ sp_pc = "run" /\ leaf = <<>> /\ work # <<>>
    /\ LET a == Head(work)[1]
           b == Head(work)[2]
       IN  /\ \E total \in CountOutcomes(a, b) : ~NeedsSplit(total)
           /\ leaf' = <<a, b>>
           /\ leaves' = Append(leaves, <<a, b>>)
    /\ work' = Tail(work)
    /\ page' = 1
    /\ UNCHANGED <<recs, sp_start, sp_end, yielded, nsplits, sp_log, sp_pc>>
    /\ UNCHANGED notSplit

\* _recurse(a, b), count over the cap and mid <= a: search_items on [a, b] anyway
RecurseFallback ==
    /\ sp_pc = "run" /\ leaf = <<>> /\ work # <<>>
    /\ LET a == Head(work)[1]
           b == Head(work)[2]
       IN  /\ \E total \in CountOutcomes(a, b) : NeedsSplit(total)
           /\ Mid(a, b) <= a
           /\ leaf' = <<a, b>>
           /\ leaves' = Append(leaves, <<a, b>>)
    /\ work' = Tail(work)
    /\ page' = 1
    /\ UNCHANGED <<recs, sp_start, sp_end, yielded, nsplits, sp_log, sp_pc>>
    /\ UNCHANGED notSplit

\* _recurse(a, b), count over the cap and mid > a: the two halves, left first
RecurseSplit ==
    /\ sp_pc = "run" /\ leaf = <<>> /\ work # <<>>
    /\ LET a == Head(work)[1]
           b == Head(work)[2]
       IN  /\ \E total \in CountOutcomes(a, b) : NeedsSplit(total)
           /\ Mid(a, b) > a
           /\ work' = SubRanges(a, b) \o Tail(work)
    /\ nsplits' = nsplits + 1
    /\ UNCHANGED <<recs, sp_start, sp_end, leaf, page, yielded, leaves, sp_log, sp_pc>>
    /\ UNCHANGED notSplit

\* search_count answered by a rate-limited 403: "[rate limit] sleeping" is
\* written, then sleep and the same call again
CountRateLimited ==
    /\ sp_pc = "run" /\ leaf = <<>> /\ work # <<>>
    /\ sp_log' = sp_log \cup {"retry"}
    /\ UNCHANGED <<recs, sp_start, sp_end, work, leaf, page, yielded, leaves, nsplits,
                   sp_pc>>
    /\ UNCHANGED notSplit

\* search_count answered by a 5xx or another 4xx: r.raise_for_status() raises
CountRaise ==
    /\ sp_pc = "run" /\ leaf = <<>> /\ work # <<>>
    /\ sp_pc' = "raised"
    /\ UNCHANGED <<recs, sp_start, sp_end, work, leaf, page, yielded, leaves, nsplits,
                   sp_log>>
    /\ UNCHANGED notSplit

\* search_items: page answered 200 with items; they are yielded, and the loop
\* goes on to the next page unless the page is short or page >= 10
PageYield ==
    /\ sp_pc = "run" /\ leaf # <<>>
    /\ LET items == PageItems(leaf[1], leaf[2], page)
       IN  /\ items # <<>>
           /\ yielded' = Yield(yielded, items)
           /\ IF NumItems(items) < PerPage \/ page >= MaxPage
              THEN leaf' = <<>> /\ page' = page
              ELSE leaf' = leaf /\ page' = page + 1
           \* `if tqdm is None and fetched % 300 == 0: print("... fetched ...")`
           /\ sp_log' \in IF \E k \in 1..NumItems(items) :
                                ((page - 1) * PerPage + k) % 300 = 0
                           THEN {sp_log, sp_log \cup {"progress"}}
                           ELSE {sp_log}
    /\ UNCHANGED <<recs, sp_start, sp_end, work, leaves, nsplits, sp_pc>>
    /\ UNCHANGED notSplit

\* search_items: page answered 200 with no items: break
PageEmpty ==
    /\ sp_pc = "run" /\ leaf # <<>>
    /\ PageItems(leaf[1], leaf[2], page) = <<>>
    /\ leaf' = <<>>
    /\ UNCHANGED <<recs, sp_start, sp_end, work, page, yielded, leaves, nsplits,
                   sp_log, sp_pc>>
    /\ UNCHANGED notSplit

\* search_items: rate-limited 403 or 5xx: the notice is written, then sleep
\* and continue with the same page
PageRetry ==
    /\ sp_pc = "run" /\ leaf # <<>>
    /\ sp_log' = sp_log \cup {"retry"}
    /\ UNCHANGED <<recs, sp_start, sp_end, work, leaf, page, yielded, leaves, nsplits,
                   sp_pc>>
    /\ UNCHANGED notSplit

\* search_items: a 4xx that is neither a rate limit nor 422:
\* r.raise_for_status() raises
PageRaise ==
    /\ sp_pc = "run" /\ leaf # <<>>
    /\ sp_pc' = "raised"
    /\ UNCHANGED <<recs, sp_start, sp_end, work, leaf, page, yielded, leaves, nsplits,
                   sp_log>>
    /\ UNCHANGED notSplit

\* no call is pending: adaptive_search_range is exhausted
SplitDone ==
    /\ sp_pc = "run" /\ leaf = <<>> /\ work = <<>>
    /\ sp_pc' = "done"
    /\ UNCHANGED <<recs, sp_start, sp_end, work, leaf, page, yielded, leaves, nsplits,
                   sp_log>>
    /\ UNCHANGED notSplit

NextSplit ==
    \/ RecurseDelegate
    \/ RecurseFallback
    \/ RecurseSplit
    \/ CountRateLimited
    \/ CountRaise
    \/ PageYield
    \/ PageEmpty
    \/ PageRetry
    \/ PageRaise
    \/ SplitDone

(***************************************************************************)
(* The checkpointed job: main of project_health_metrics, with paged and    *)
(* get_json.  The window has NSlices month slices.  A list of search       *)
(* results is a sequence of runs <<slice, n>>: the first n records the     *)
(* server lists for the slice.  cp_save is atomic here (see SpecStore).    *)
(* The stages are prs, merged_prs, mergers, pr_merge_hours and             *)
(* commits_active_months; issues and issue_resp_hours repeat the code of   *)
(* prs and pr_merge_hours, and the review latency stage is not part of     *)
(* this component.                                                         *)
(***************************************************************************)
NSlices == 2
MaxStops == 1

Slices == 1..NSlices
SearchStages == {"prs", "merged_prs"}
ItemStages == {"mergers", "pr_merge_hours"}
JobOrder == <<"prs", "merged_prs", "mergers", "pr_merge_hours", "commits_active_months">>
JobStages == {JobOrder[i] : i \in 1..Len(JobOrder)}

\* the stage after st in main, "finish" after the last
StageAfter(st) ==
    LET i == CHOOSE k \in 1..Len(JobOrder) : JobOrder[k] = st
    IN  IF i = Len(JobOrder) THEN "finish" ELSE JobOrder[i + 1]

PRCounts == {0, 150, 1100}
MergedCounts == {0, 2}
CommitCounts == {0, 150}

\* the number of records the server holds for slice s of a sliced stage
Remote(st, s) ==
    IF st = "prs" THEN srv.pr[s]
    ELSE IF st = "merged_prs" THEN srv.merged[s]
    ELSE srv.commits[s]

\* len of page p (per_page = 100) of a listing of n records
ItemsOnPage(n, p) == Max(0, Min(PerPage, n - (p - 1) * PerPage))

\* list l with the next k records of slice s appended
AddRun(l, s, k) ==
    IF k = 0 THEN l
    ELSE IF l # <<>> /\ l[Len(l)][1] = s
         THEN [l EXCEPT ![Len(l)] = <<s, l[Len(l)][2] + k>>]
    ELSE Append(l, <<s, k>>)

RECURSIVE TotalItems(_)
TotalItems(l) == IF l = <<>> THEN 0 ELSE Head(l)[2] + TotalItems(Tail(l))

\* the i-th record of list l: <<slice, position>>
RECURSIVE ItemAt(_, _)
ItemAt(l, i) == IF i <= Head(l)[2] THEN <<Head(l)[1], i>> ELSE ItemAt(Tail(l), i - Head(l)[2])

\* the initial value of a stage's accumulator, which is also the default
\* passed to cp_load (None for commits_active_months, whose accumulator
\* starts as an empty dict)
EmptyOf(st) == IF st \in {"mergers", "commits_active_months"} THEN {} ELSE <<>>

File(d) == [exists |-> TRUE, data |-> d]
Absent == [exists |-> FALSE, data |-> <<>>]

\* sorted(list(mergers)) written by cp_save, set(...) applied to what cp_load
\* returns: mergers holds at most the one login "m"
SortedList(set) == IF set = {} THEN <<>> ELSE <<CHOOSE x \in set : TRUE>>
SetOf(list) == {list[i] : i \in 1..Len(list)}
Saved(st, v) == IF st = "mergers" THEN SortedList(v) ELSE v
Loaded(st, d) == IF st = "mergers" THEN SetOf(d) ELSE d

\* the value main takes from cp_load(st, default)
JobLoaded(st) == IF cpfile[st].exists THEN Loaded(st, cpfile[st].data) ELSE EmptyOf(st)

\* the test that makes main skip the fetch of a stage: `if prs:` on the
\* loaded value, `is not None` for commits_active_months
SkipsFetch(st) ==
    IF st = "commits_active_months" THEN cpfile[st].exists
    ELSE JobLoaded(st) # EmptyOf(st)

\* what paged yields for a search listing of n records, from page p on
RECURSIVE PagedSearch(_, _)
PagedSearch(n, p) ==
    LET k == ItemsOnPage(n, p)
    IN  IF k < PerPage \/ p >= MaxPage THEN k ELSE k + PagedSearch(n, p + 1)

\* the result of an uninterrupted run of a sliced search stage, slices s..NSlices
RECURSIVE FullRuns(_, _)
FullRuns(st, s) ==
    IF s > NSlices THEN <<>>
    ELSE LET rest == FullRuns(st, s + 1)
             k == PagedSearch(Remote(st, s), 1)
         IN  IF k = 0 THEN rest ELSE <<<<s, k>>>> \o rest

\* the result of an uninterrupted run of the commits stage: the (user, month)
\* pairs of the slices that hold a commit (one author, one month per slice)
FullCommits == {s \in Slices : srv.commits[s] > 0}

JobIdle ==
    /\ srv = [pr |-> <<>>, merged |-> <<>>, merged_by |-> FALSE, commits |-> <<>>]
    /\ cpfile = [st \in JobStages |-> Absent]
    /\ mem = [st \in JobStages |-> EmptyOf(st)]
    /\ jpc = "off"
    /\ jphase = "load"
    /\ si = 1
    /\ jpage = 1
    /\ stops = 0
    /\ cp_done = {}
    /\ refetch = {}
    /\ midkill = {}

\* a first run of main in a directory without checkpoints
JobInit ==
    /\ \E pr \in [Slices -> PRCounts], mg \in [Slices -> MergedCounts],
          mb \in BOOLEAN, cm \in [Slices -> CommitCounts] :
          /\ \A s \in Slices : mg[s] <= pr[s]
          /\ srv = [pr |-> pr, merged |-> mg, merged_by |-> mb, commits |-> cm]
    /\ cpfile = [st \in JobStages |-> Absent]
    /\ mem = [st \in JobStages |-> EmptyOf(st)]
    /\ jpc = "prs"
    /\ jphase = "load"
    /\ si = 1
    /\ jpage = 1
    /\ stops = 0
    /\ cp_done = {}
    /\ refetch = {}
    /\ midkill = {}

\* a request of the fetch loop of the current stage is about to be sent
AtRequest ==
    /\ jphase = "fetch"
    /\ \/ jpc \in SearchStages \cup {"commits_active_months"} /\ si <= NSlices
       \/ jpc \in ItemStages /\ si <= TotalItems(mem["merged_prs"])

\* history: the stage is fetched although a completed checkpoint is on disk
Refetched == IF jpc \in cp_done THEN refetch \cup {jpc} ELSE refetch

\* x = cp_load(stage, default) and the test that follows it: either the
\* loaded value is kept and the fetch skipped, or the fetch loop is entered
JobLoad ==
    /\ jpc \in JobStages /\ jphase = "load"
    /\ mem' = [mem EXCEPT ![jpc] = JobLoaded(jpc)]
    /\ IF SkipsFetch(jpc)
       THEN jpc' = StageAfter(jpc) /\ jphase' = "load"
       ELSE jpc' = jpc /\ jphase' = "fetch"
    /\ si' = 1
    /\ jpage' = 1
    /\ UNCHANGED <<srv, cpfile, stops, cp_done, refetch, midkill>>
    /\ UNCHANGED notJob

\* paged on the search endpoint (dict branch), one page answered 200: the
\* items are appended; after a short page or page 10 the slice ends and
\* cp_save(stage, list) follows
JobSearchPage ==
    /\ jpc \in SearchStages /\ AtRequest
    /\ LET k == ItemsOnPage(Remote(jpc, si), jpage)
           l == AddRun(mem[jpc], si, k)
       IN  /\ mem' = [mem EXCEPT ![jpc] = l]
           /\ IF k < PerPage \/ jpage >= MaxPage
              THEN /\ cpfile' = [cpfile EXCEPT ![jpc] = File(Saved(jpc, l))]
                   /\ cp_done' = IF si = NSlices THEN cp_done \cup {jpc} ELSE cp_done \ {jpc}
                   /\ si' = si + 1
                   /\ jpage' = 1
              ELSE /\ jpage' = jpage + 1
                   /\ UNCHANGED <<cpfile, cp_done, si>>
    /\ refetch' = Refetched
    /\ UNCHANGED <<srv, jpc, jphase, stops, midkill>>
    /\ UNCHANGED notJob

\* paged on the commits endpoint (list branch), one page answered 200: the
\* author's (year, month) is added; an empty page or a page without a
\* "next" link ends the slice and cp_save("commits_active_months", ...) follows
JobCommitsPage ==
    /\ jpc = "commits_active_months" /\ AtRequest
    /\ LET k == ItemsOnPage(Remote(jpc, si), jpage)
           a == IF k > 0 THEN mem[jpc] \cup {si} ELSE mem[jpc]
           hasNext == jpage * PerPage < Remote(jpc, si)
       IN  /\ mem' = [mem EXCEPT ![jpc] = a]
           /\ IF k = 0 \/ ~hasNext
              THEN /\ cpfile' = [cpfile EXCEPT ![jpc] = File(Saved(jpc, a))]
                   /\ cp_done' = IF si = NSlices THEN cp_done \cup {jpc} ELSE cp_done \ {jpc}
                   /\ si' = si + 1
                   /\ jpage' = 1
              ELSE /\ jpage' = jpage + 1
                   /\ UNCHANGED <<cpfile, cp_done, si>>
    /\ refetch' = Refetched
    /\ UNCHANGED <<srv, jpc, jphase, stops, midkill>>
    /\ UNCHANGED notJob

\* the slice loop of a sliced stage is exhausted: main goes on
JobSlicesEnd ==
    /\ jpc \in SearchStages \cup {"commits_active_months"}
    /\ jphase = "fetch"
    /\ si > NSlices
    /\ jpc' = StageAfter(jpc)
    /\ jphase' = "load"
    /\ si' = 1
    /\ UNCHANGED <<srv, cpfile, mem, jpage, stops, cp_done, refetch, midkill>>
    /\ UNCHANGED notJob

\* for it in merged_prs: get_json(PULLS/num) answered 200; the merger login
\* is added (mergers), or the merge time appended (pr_merge_hours)
JobItemFetch ==
    /\ jpc \in ItemStages /\ AtRequest
    /\ LET it == ItemAt(mem["merged_prs"], si)
       IN  mem' = [mem EXCEPT ![jpc] =
                     IF jpc = "mergers"
                     THEN IF srv.merged_by THEN @ \cup {"m"} ELSE @
                     ELSE Append(@, it)]
    /\ si' = si + 1
    /\ refetch' = Refetched
    /\ UNCHANGED <<srv, cpfile, jpc, jphase, jpage, stops, cp_done, midkill>>
    /\ UNCHANGED notJob

\* the loop over merged_prs is exhausted: cp_save(stage, result), main goes on
JobItemsEnd ==
    /\ jpc \in ItemStages /\ jphase = "fetch"
    /\ si > TotalItems(mem["merged_prs"])
    /\ cpfile' = [cpfile EXCEPT ![jpc] = File(Saved(jpc, mem[jpc]))]
    /\ cp_done' = cp_done \cup {jpc}
    /\ jpc' = StageAfter(jpc)
    /\ jphase' = "load"
    /\ si' = 1
    /\ UNCHANGED <<srv, mem, jpage, stops, refetch, midkill>>
    /\ UNCHANGED notJob

\* get_json: a rate-limited 403 or a 5xx: sleep, the same request again
JobRetry ==
    /\ AtRequest \/ jpc = "finish"
    /\ UNCHANGED jobVars
    /\ UNCHANGED notJob

\* get_json: r.raise_for_status() raises on another 4xx; main does not catch
\* it and the process ends
JobRaise ==
    /\ AtRequest \/ jpc = "finish"
    /\ stops < MaxStops
    /\ stops' = stops + 1
    /\ jpc' = "stopped"
    /\ UNCHANGED <<srv, cpfile, mem, jphase, si, jpage, cp_done, refetch, midkill>>
    /\ UNCHANGED notJob

\* the process is killed
JobKill ==
    /\ jpc \in JobStages \cup {"finish"}
    /\ stops < MaxStops
    /\ stops' = stops + 1
    /\ midkill' = IF /\ jpc \in SearchStages \cup {"commits_active_months"}
                     /\ jphase = "fetch" /\ si > 1 /\ si <= NSlices
                  THEN midkill \cup {jpc} ELSE midkill
    /\ jpc' = "stopped"
    /\ UNCHANGED <<srv, cpfile, mem, jphase, si, jpage, cp_done, refetch>>
    /\ UNCHANGED notJob

\* the job is started again: main from its first line, the files as they are
JobRestart ==
    /\ jpc = "stopped"
    /\ mem' = [st \in JobStages |-> EmptyOf(st)]
    /\ jpc' = "prs"
    /\ jphase' = "load"
    /\ si' = 1
    /\ jpage' = 1
    /\ UNCHANGED <<srv, cpfile, stops, cp_done, refetch, midkill>>
    /\ UNCHANGED notJob

\* mutant: the file of the last stage is not removed
JobCleanupPartial ==
    /\ jpc = "finish"
    /\ cpfile' = [st \in JobStages |->
                     IF st = "commits_active_months" THEN cpfile[st] ELSE Absent]
    /\ cp_done' = {}
    /\ jpc' = "done"
    /\ UNCHANGED <<srv, mem, jphase, si, jpage, stops, refetch, midkill>>
    /\ UNCHANGED notJob

\* the metrics are computed and printed, then cp_cleanup_all(): every
\* .ph_checkpoint_*.json file is removed
JobCleanup ==
    /\ jpc = "finish"
    /\ cpfile' = [st \in JobStages |-> Absent]
    /\ cp_done' = {}
    /\ jpc' = "done"
    /\ UNCHANGED <<srv, mem, jphase, si, jpage, stops, refetch, midkill>>
    /\ UNCHANGED notJob

NextJob ==
    \/ JobLoad
    \/ JobSearchPage
    \/ JobCommitsPage
    \/ JobSlicesEnd
    \/ JobItemFetch
    \/ JobItemsEnd
    \/ JobRetry
    \/ JobRaise
    \/ JobKill
    \/ JobRestart
    \/ JobCleanup

(***************************************************************************)
(* The paginators, one run over one listing.  Cursor paginators:           *)
(* GH._paginate (bot_filter_username), rest_paginated (contributor_buckets,*)
(* bot_filter_pattern), paged on a list endpoint (bucket_activity,         *)
(* project_health_metrics).  Search paginators: search_items               *)
(* (contributor_buckets, bot_filter_pattern), GH.search_issues             *)
(* (bot_filter_username), paged on the search endpoint.  The server lists  *)
(* pg_total records 100 to a page, sets a "next" link while records        *)
(* remain, and answers 422 to a search page beyond the tenth.              *)
(* Single requests run through the same steps: the per-slice fetch of      *)
(* dedupe_profile (gh_get, first page only), the count query search_count  *)
(* (contributor_buckets) and the profile fetch of                          *)
(* classify_bot_without_username (bot_filter_pattern).                     *)
(***************************************************************************)
MaxPgFaults == 2
MaxCounted == 13

CursorImpls == {"_paginate", "rest_paginated", "paged_list"}
SearchImpls == {"search_items", "search_issues", "paged_search"}
\* the paginators that send through GH._get, whose 5xx retries are counted
GetImpls == {"_paginate", "search_issues"}
\* the fetches made of one request, with no page loop around it
SingleImpls == {"gh_get", "search_count", "user_profile"}
PgTotals == {0, 37, 200, 237, 1000, 1100}

\* what the page loop does after a 200 page of n records: "done" (break)
\* or "more" (page += 1)
PgAfterPageOnePage(impl, p, n, next) == "done"

PgAfterPage(impl, p, n, next) ==
    IF impl \in SingleImpls
    THEN "done"
    ELSE IF impl \in CursorImpls
    THEN IF n = 0 \/ ~next THEN "done" ELSE "more"
    ELSE IF impl = "search_items"
    THEN IF n = 0 \/ n < PerPage \/ p >= MaxPage THEN "done" ELSE "more"
    ELSE IF impl = "search_issues"
    THEN IF n < PerPage THEN "done" ELSE "more"
    ELSE IF n < PerPage \/ p >= MaxPage THEN "done" ELSE "more"

\* the statuses with which the server may answer the request for pg_page
PgStatuses ==
    IF pg_down THEN {500}
    ELSE (IF pg_impl \in SearchImpls /\ pg_page > MaxPage THEN {422} ELSE {200})
         \cup (IF pg_faults < MaxPgFaults THEN {403, 404, 422, 500} ELSE {})

\* the history variables after a response of status st whose body, for a
\* 200, has JSON type body
PgSeen(st, body) ==
    /\ pg_last' = st
    /\ pg_body' = body
    /\ pg_reqs' = Min(pg_reqs + 1, MaxCounted)
    /\ pg_faults' = IF st = 200 /\ body # "unexpected" THEN pg_faults
                    ELSE Min(pg_faults + 1, MaxPgFaults)

PagerIdle ==
    /\ pg_impl = "none"
    /\ pg_total = 0
    /\ pg_down = FALSE
    /\ pg_pc = "idle"
    /\ pg_page = 1
    /\ pg_att = 0
    /\ pg_out = <<>>
    /\ pg_reqs = 0
    /\ pg_last = 0
    /\ pg_body = "none"
    /\ pg_faults = 0

\* entry of the paginator: page = 1
PagerInit ==
    /\ pg_impl \in CursorImpls \cup SearchImpls \cup SingleImpls
    /\ pg_total \in PgTotals
    /\ pg_down \in BOOLEAN
    /\ pg_pc = "request"
    /\ pg_page = 1
    /\ pg_att = 0
    /\ pg_out = <<>>
    /\ pg_reqs = 0
    /\ pg_last = 0
    /\ pg_body = "none"
    /\ pg_faults = 0

\* a page answered 200: its records are yielded, then break or page += 1
PgPage ==
    /\ pg_pc = "request"
    /\ 200 \in PgStatuses
    /\ LET n == IF pg_impl = "user_profile" THEN 1
                ELSE IF pg_impl = "search_count" THEN Min(pg_total, 1)
                ELSE ItemsOnPage(pg_total, pg_page)
           next == pg_page * PerPage < pg_total
       IN  /\ pg_out' = IF n > 0 THEN Append(pg_out, <<pg_page, n>>) ELSE pg_out
           /\ IF PgAfterPage(pg_impl, pg_page, n, next) = "done"
              THEN pg_pc' = "done" /\ pg_page' = pg_page
              ELSE pg_pc' = "request" /\ pg_page' = pg_page + 1
    /\ pg_att' = 0
    /\ PgSeen(200, "expected")
    /\ UNCHANGED <<pg_impl, pg_total, pg_down>>
    /\ UNCHANGED notPager

\* a list endpoint answers 200 with a body that is not a list (a JSON
\* object).  _paginate raises RuntimeError("Expected list ..."),
\* rest_paginated breaks on `not isinstance(arr, list)`, paged takes its
\* dict branch, finds no "items" and breaks.
PgNotList ==
    /\ pg_pc = "request"
    /\ pg_impl \in CursorImpls
    /\ 200 \in PgStatuses
    /\ pg_faults < MaxPgFaults
    /\ pg_pc' = IF pg_impl = "_paginate" THEN "raised" ELSE "done"
    /\ pg_att' = 0
    /\ PgSeen(200, "unexpected")
    /\ UNCHANGED <<pg_impl, pg_total, pg_down, pg_page, pg_out>>
    /\ UNCHANGED notPager

\* a 403 whose body says "rate limit": sleep until the reset, same request
\* (`continue`, or search_count calling itself).  The profile fetch tests
\* for the rate limit once: it sleeps and sends again, and the answer to
\* that second request goes to raise_for_status whatever it is.
PgRateLimited ==
    /\ pg_pc = "request"
    /\ 403 \in PgStatuses
    /\ pg_pc' = IF pg_impl = "user_profile" /\ pg_att > 0 THEN "raised" ELSE "sleep"
    /\ pg_att' = IF pg_impl \in GetImpls \cup {"user_profile"} THEN pg_att + 1 ELSE pg_att
    /\ PgSeen(403, "none")
    /\ UNCHANGED <<pg_impl, pg_total, pg_down, pg_page, pg_out>>
    /\ UNCHANGED notPager

\* a 5xx.  rest_paginated, search_items and get_json (paged) sleep and send
\* the same request again, without a bound.  GH._get retries while attempt
\* <= max_retries and then returns the 5xx response: _paginate raises on
\* its body (not a list), search_issues finds no "items" and breaks, or
\* r.json() raises.  search_count and the profile fetch have no 5xx branch:
\* raise_for_status raises.
PgServerError ==
    /\ pg_pc = "request"
    /\ 500 \in PgStatuses
    /\ IF pg_impl \in {"search_count", "user_profile"}
       THEN /\ pg_att' = pg_att
            /\ pg_pc' = "raised"
       ELSE IF pg_impl \in GetImpls
       THEN /\ pg_att' = pg_att + 1
            /\ IF pg_att + 1 <= DefaultMaxRetriesUsername
               THEN pg_pc' = "sleep"
               ELSE pg_pc' \in IF pg_impl = "search_issues"
                               THEN {"done", "raised"} ELSE {"raised"}
       ELSE /\ pg_att' = pg_att
            /\ pg_pc' = "sleep"
    /\ PgSeen(500, "none")
    /\ UNCHANGED <<pg_impl, pg_total, pg_down, pg_page, pg_out>>
    /\ UNCHANGED notPager

\* another 4xx: search_items breaks on 422; everywhere else the transport
\* raises (RuntimeError in GH._request_with_retries, raise_for_status)
PgClientError ==
    /\ pg_pc = "request"
    /\ \E st \in {404, 422} \cap PgStatuses :
          /\ pg_pc' = IF pg_impl = "search_items" /\ st = 422 THEN "done" ELSE "raised"
          /\ PgSeen(st, "none")
    /\ pg_att' = IF pg_impl \in GetImpls THEN pg_att + 1 ELSE pg_att
    /\ UNCHANGED <<pg_impl, pg_total, pg_down, pg_page, pg_out>>
    /\ UNCHANGED notPager

\* mutant: the retry after a sleep moves on to the next page
PgWakeNextPage ==
    /\ pg_pc = "sleep"
    /\ pg_pc' = "request"
    /\ pg_page' = pg_page + 1
    /\ UNCHANGED <<pg_impl, pg_total, pg_down, pg_att, pg_out, pg_reqs,
                   pg_last, pg_body, pg_faults>>
    /\ UNCHANGED notPager

\* time.sleep returns: continue
PgWake ==
    /\ pg_pc = "sleep"
    /\ pg_pc' = "request"
    /\ UNCHANGED <<pg_impl, pg_total, pg_down, pg_page, pg_att, pg_out, pg_reqs,
                   pg_last, pg_body, pg_faults>>
    /\ UNCHANGED notPager

NextPager ==
    \/ PgPage
    \/ PgNotList
    \/ PgRateLimited
    \/ PgServerError
    \/ PgClientError
    \/ PgWake

(***************************************************************************)
(* Contributor collection: the commit loop and the email de-duplication of *)
(* collect_contributors (bot_filter_username).  A commit carries the login *)
(* of its GitHub author, or none, and the email of its git author, or      *)
(* none.                                                                   *)
(***************************************************************************)
MaxCommits == 4

\* the names in the order Python compares them as strings
Names == <<"amy", "bob", "dependabot", "unknown:e1", "unknown:e2", "zed">>
\* an email NOREPLY_RE matches; its login group is "amy"
NoreplyEmail == "1+amy@users.noreply.github.com"

\* is_bot_login: BOT_REGEXES match "dependabot"
is_bot_login(login) == login = "dependabot"

\* sorted(logins)[0]
Canonical(logins) ==
    LET rank(l) == CHOOSE i \in 1..Len(Names) : Names[i] = l
    IN  CHOOSE l \in logins : \A k \in logins : rank(l) <= rank(k)

\* the loop over dedupe_groups from the emails still to visit: every login
\* of a group but the first is mapped to the first, a later group overwriting
\* an earlier one.  Noreply emails and groups of one login are skipped.
RECURSIVE AliasMap(_, _)
AliasMap(emails, am) ==
    IF emails = <<>> THEN am
    ELSE LET logins == email_to_logins[Head(emails)]
         IN  IF Head(emails) = NoreplyEmail \/ Cardinality(logins) <= 1
             THEN AliasMap(Tail(emails), am)
             ELSE AliasMap(Tail(emails),
                           [l \in DOMAIN am |->
                               IF l \in logins \ {Canonical(logins)}
                               THEN Canonical(logins) ELSE am[l]])

DedupeIdle ==
    /\ human_logins = {}
    /\ bot_logins = {}
    /\ email_to_logins = [e \in {"e1", "e2", NoreplyEmail} |-> {}]
    /\ dd_emails = <<>>
    /\ alias_map = [l \in {Names[i] : i \in 1..Len(Names)} |-> l]
    /\ final_logins = {}
    /\ dd_n = 0
    /\ dd_pc = "idle"

\* one commit of gh.commits: add(login, "commit"); a noreply email names a
\* login, which is added too and stands in for a missing login; the login, or
\* "unknown:<email>", is recorded under the email
DdCommit ==
    /\ dd_pc = "commits"
    /\ dd_n < MaxCommits
    /\ \E login \in {"amy", "bob", "dependabot", "zed", "none"},
          email \in {"e1", "e2", NoreplyEmail, "none"} :
          LET from_email == IF email = NoreplyEmail THEN {"amy"} ELSE {}
              added == (IF login = "none" THEN {} ELSE {login}) \cup from_email
              lg == IF login # "none" THEN login
                    ELSE IF email = NoreplyEmail THEN "amy"
                    ELSE "unknown:" \o email
          IN  /\ human_logins' = human_logins \cup {l \in added : ~is_bot_login(l)}
              /\ bot_logins' = bot_logins \cup {l \in added : is_bot_login(l)}
              /\ IF email = "none"
                 THEN UNCHANGED <<email_to_logins, dd_emails>>
                 ELSE /\ email_to_logins' =
                            [email_to_logins EXCEPT ![email] = @ \cup {lg}]
                      /\ dd_emails' = IF email_to_logins[email] = {}
                                      THEN Append(dd_emails, email) ELSE dd_emails
    /\ dd_n' = dd_n + 1
    /\ UNCHANGED <<alias_map, final_logins, dd_pc>>
    /\ UNCHANGED notDedupe

\* after the loops: dedupe_groups, alias_map, final_logins, return
DdDedupe ==
    /\ dd_pc = "commits"
    /\ LET am == AliasMap(dd_emails, [l \in {Names[i] : i \in 1..Len(Names)} |-> l])
       IN  /\ alias_map' = am
           /\ final_logins' = {am[lg] : lg \in human_logins}
    /\ dd_pc' = "returned"
    /\ UNCHANGED <<human_logins, bot_logins, email_to_logins, dd_emails, dd_n>>
    /\ UNCHANGED notDedupe

(***************************************************************************)
(* Review latency stage of project_health_metrics: the loop over scan_prs  *)
(* with its checkpoint pair review_done_idx / review_hours.  cp_save       *)
(* replaces a file atomically, so each cp_save is one step; the process    *)
(* can be killed between any two steps and is then started again.          *)
(***************************************************************************)
MaxPrs == 101
MaxKills == 2
CheckpointEvery == 50

\* first_t is set: a maintainer commented on or reviewed the pull request
HasReview(i) == i % reviewed = 0

ReviewIdle ==
    /\ scan_prs = 0
    /\ reviewed = 1
    /\ cp_review_done_idx = 0
    /\ cp_review_hours = <<>>
    /\ rv_idx = 0
    /\ pr_first_review_hours = <<>>
    /\ rv_kills = 0
    /\ rv_pc = "off"

\* done_idx = int(cp_load("review_done_idx", 0) or 0);
\* pr_first_review_hours = cp_load("review_hours", [])
ReviewStart ==
    /\ rv_pc = "off"
    /\ rv_idx' = cp_review_done_idx
    /\ pr_first_review_hours' = cp_review_hours
    /\ rv_pc' = "loop"
    /\ UNCHANGED <<scan_prs, reviewed, cp_review_done_idx, cp_review_hours, rv_kills>>
    /\ UNCHANGED notReview

\* one pass of the loop body up to the checkpoint test
ReviewPr ==
    /\ rv_pc = "loop"
    /\ rv_idx < scan_prs
    /\ pr_first_review_hours' = IF HasReview(rv_idx) THEN Append(pr_first_review_hours, rv_idx)
                                ELSE pr_first_review_hours
    /\ IF (rv_idx + 1) % CheckpointEvery = 0
       THEN rv_pc' = "save_idx" /\ rv_idx' = rv_idx
       ELSE rv_pc' = "loop" /\ rv_idx' = rv_idx + 1
    /\ UNCHANGED <<scan_prs, reviewed, cp_review_done_idx, cp_review_hours, rv_kills>>
    /\ UNCHANGED notReview

\* cp_save("review_done_idx", idx+1)
ReviewSaveIdx ==
    /\ rv_pc = "save_idx"
    /\ cp_review_done_idx' = rv_idx + 1
    /\ rv_pc' = "save_hours"
    /\ UNCHANGED <<scan_prs, reviewed, cp_review_hours, rv_idx, pr_first_review_hours, rv_kills>>
    /\ UNCHANGED notReview

\* cp_save("review_hours", pr_first_review_hours), then the next pass
ReviewSaveHours ==
    /\ rv_pc = "save_hours"
    /\ cp_review_hours' = pr_first_review_hours
    /\ rv_idx' = rv_idx + 1
    /\ rv_pc' = "loop"
    /\ UNCHANGED <<scan_prs, reviewed, cp_review_done_idx, pr_first_review_hours, rv_kills>>
    /\ UNCHANGED notReview

\* the loop is over: cp_save("review_done_idx", len(scan_prs))
ReviewEndIdx ==
    /\ rv_pc = "loop"
    /\ rv_idx >= scan_prs
    /\ cp_review_done_idx' = scan_prs
    /\ rv_pc' = "end_hours"
    /\ UNCHANGED <<scan_prs, reviewed, cp_review_hours, rv_idx, pr_first_review_hours, rv_kills>>
    /\ UNCHANGED notReview

\* cp_save("review_hours", pr_first_review_hours)
ReviewEndHours ==
    /\ rv_pc = "end_hours"
    /\ cp_review_hours' = pr_first_review_hours
    /\ rv_pc' = "done"
    /\ UNCHANGED <<scan_prs, reviewed, cp_review_done_idx, rv_idx, pr_first_review_hours, rv_kills>>
    /\ UNCHANGED notReview

\* the process is killed: memory is lost, the files stay
ReviewKill ==
    /\ rv_pc \in {"loop", "save_idx", "save_hours", "end_hours"}
    /\ rv_kills < MaxKills
    /\ rv_kills' = rv_kills + 1
    /\ rv_idx' = 0
    /\ pr_first_review_hours' = <<>>
    /\ rv_pc' = "off"
    /\ UNCHANGED <<scan_prs, reviewed, cp_review_done_idx, cp_review_hours>>
    /\ UNCHANGED notReview


(***************************************************************************)
(* Classification of contributor_buckets: one bucket per active login,     *)
(* then the dormant logins.  commits_by and merged_prs_by are defaultdicts *)
(* that get a key with the first commit or merged pull request of a login. *)
(***************************************************************************)
\* the bucket of a login with c commits and m merged pull requests
BucketNoRescue(c, m, hist) ==
    IF ~hist THEN "Newcomer"
    ELSE IF c >= 200 \/ m >= 150 THEN "Key"
    ELSE IF (20 <= c /\ c <= 199) \/ (25 <= m /\ m <= 149) THEN "Frequent"
    ELSE IF (2 <= c /\ c <= 19) \/ (1 <= m /\ m <= 24) THEN "Occasional"
    ELSE "Inactive"

Bucket(c, m, hist) ==
    LET bucket == IF ~hist THEN "Newcomer"
                  ELSE IF c >= 200 \/ m >= 150 THEN "Key"
                  ELSE IF (20 <= c /\ c <= 199) \/ (25 <= m /\ m <= 149) THEN "Frequent"
                  ELSE IF (2 <= c /\ c <= 19) \/ (1 <= m /\ m <= 24) THEN "Occasional"
                  ELSE "Inactive"
    IN  IF bucket = "Inactive"
        THEN (IF c > 0 \/ m > 0 THEN "Occasional" ELSE "Inactive")
        ELSE bucket

\* set(commits_by.keys()) | set(merged_prs_by.keys())
active_users == {l \in DOMAIN commits_by : commits_by[l] > 0 \/ merged_prs_by[l] > 0}

BucketIdle ==
    /\ commits_by = [l \in {"amy", "bob"} |-> 0]
    /\ merged_prs_by = [l \in {"amy", "bob"} |-> 0]
    /\ historical_before_since = {}
    /\ rows = {}
    /\ bucket_counts = [b \in {"Key", "Frequent", "Occasional", "Newcomer", "Inactive", "Dormant"} |-> 0]
    /\ dormant_users = {}
    /\ bk_pc = "idle"

\* one pass of `for login in sorted(active_users)`
BkClassify ==
    /\ bk_pc = "classify"
    /\ \E login \in active_users :
          /\ \A r \in rows : r[1] # login
          /\ \A l \in active_users : (\A r \in rows : r[1] # l) => (l = "bob" \/ login = "amy")
          /\ LET bucket == Bucket(commits_by[login], merged_prs_by[login],
                                  login \in historical_before_since)
             IN  /\ bucket_counts' = [bucket_counts EXCEPT ![bucket] = @ + 1]
                 /\ rows' = rows \cup {<<login, bucket>>}
    /\ UNCHANGED <<commits_by, merged_prs_by, historical_before_since, dormant_users, bk_pc>>
    /\ UNCHANGED notBucket

\* after the loop: the dormant logins are counted
BkDormant ==
    /\ bk_pc = "classify"
    /\ \A l \in active_users : \E r \in rows : r[1] = l
    /\ dormant_users' = historical_before_since \ active_users
    /\ bucket_counts' = [bucket_counts EXCEPT
                            !["Dormant"] = @ + Cardinality(historical_before_since \ active_users)]
    /\ bk_pc' = "done"
    /\ UNCHANGED <<commits_by, merged_prs_by, historical_before_since, rows>>
    /\ UNCHANGED notBucket


(***************************************************************************)
(* Specifications                                                          *)
(***************************************************************************)
InitSlice == SliceInit /\ TransportIdle /\ StoreIdle /\ SplitIdle /\ JobIdle /\ PagerIdle /\ DedupeIdle /\ ReviewIdle /\ BucketIdle
SpecSlice == InitSlice /\ [][NextSlice]_vars
\* the slicer is straight-line code in one thread: an iteration that can run, runs
SpecSliceFair == InitSlice /\ [][NextSlice]_vars /\ WF_vars(NextSlice)

InitTransport == TransportInit /\ SliceIdle /\ StoreIdle /\ SplitIdle /\ JobIdle /\ PagerIdle /\ DedupeIdle /\ ReviewIdle /\ BucketIdle
SpecTransport == InitTransport /\ [][NextTransport]_vars

InitStore == StoreInit /\ SliceIdle /\ TransportIdle /\ SplitIdle /\ JobIdle /\ PagerIdle /\ DedupeIdle /\ ReviewIdle /\ BucketIdle
SpecStore == InitStore /\ [][NextStore]_vars

InitLoad == StoreInitAny /\ SliceIdle /\ TransportIdle /\ SplitIdle /\ JobIdle /\ PagerIdle /\ DedupeIdle /\ ReviewIdle /\ BucketIdle
SpecLoad == InitLoad /\ [][NextStore]_vars

InitSplitAny == SplitInitAny /\ SliceIdle /\ TransportIdle /\ StoreIdle /\ JobIdle /\ PagerIdle /\ DedupeIdle /\ ReviewIdle /\ BucketIdle
\* every request is answered in the end: a step that can be taken, is taken
SpecSplitAny == InitSplitAny /\ [][NextSplit]_vars /\ WF_vars(NextSplit)
InitSplit == SplitInit /\ SliceIdle /\ TransportIdle /\ StoreIdle /\ JobIdle /\ PagerIdle /\ DedupeIdle /\ ReviewIdle /\ BucketIdle
SpecSplit == InitSplit /\ [][NextSplit]_vars

InitJob == JobInit /\ SliceIdle /\ TransportIdle /\ StoreIdle /\ SplitIdle /\ PagerIdle /\ DedupeIdle /\ ReviewIdle /\ BucketIdle
SpecJob == InitJob /\ [][NextJob]_vars

\* the paginator keeps running and the server answers every request
InitDedupe ==
    /\ human_logins = {}
    /\ bot_logins = {}
    /\ email_to_logins = [e \in {"e1", "e2", NoreplyEmail} |-> {}]
    /\ dd_emails = <<>>
    /\ alias_map = [l \in {Names[i] : i \in 1..Len(Names)} |-> l]
    /\ final_logins = {}
    /\ dd_n = 0
    /\ dd_pc = "commits"
    /\ SliceIdle /\ TransportIdle /\ StoreIdle /\ SplitIdle /\ JobIdle /\ PagerIdle /\ ReviewIdle /\ BucketIdle
SpecDedupe == InitDedupe /\ [][DdCommit \/ DdDedupe]_vars

\* a first run of the review stage: no checkpoint yet
InitReview ==
    /\ scan_prs \in {0, CheckpointEvery - 1, CheckpointEvery, MaxPrs}
    /\ reviewed \in {1, 2}
    /\ cp_review_done_idx = 0
    /\ cp_review_hours = <<>>
    /\ rv_idx = 0
    /\ pr_first_review_hours = <<>>
    /\ rv_kills = 0
    /\ rv_pc = "off"
    /\ SliceIdle /\ TransportIdle /\ StoreIdle /\ SplitIdle /\ JobIdle /\ PagerIdle /\ DedupeIdle /\ BucketIdle
\* the counts of the window and the history, as the scans left them
InitBuckets ==
    /\ commits_by \in [{"amy", "bob"} -> {0, 1, 2, 19, 20, 199, 200}]
    /\ merged_prs_by \in [{"amy", "bob"} -> {0, 1, 24, 25, 149, 150}]
    /\ historical_before_since \in SUBSET {"amy", "bob"}
    /\ rows = {}
    /\ bucket_counts = [b \in {"Key", "Frequent", "Occasional", "Newcomer", "Inactive", "Dormant"} |-> 0]
    /\ dormant_users = {}
    /\ bk_pc = "classify"
    /\ SliceIdle /\ TransportIdle /\ StoreIdle /\ SplitIdle /\ JobIdle /\ PagerIdle /\ DedupeIdle /\ ReviewIdle
SpecBuckets == InitBuckets /\ [][BkClassify \/ BkDormant]_vars

NextReview ==
    \/ ReviewStart
    \/ ReviewPr
    \/ ReviewSaveIdx
    \/ ReviewSaveHours
    \/ ReviewEndIdx
    \/ ReviewEndHours
    \/ ReviewKill
SpecReview == InitReview /\ [][NextReview]_vars

InitPager == PagerInit /\ SliceIdle /\ TransportIdle /\ StoreIdle /\ SplitIdle /\ JobIdle /\ DedupeIdle /\ ReviewIdle /\ BucketIdle
SpecPager == InitPager /\ [][NextPager]_vars /\ WF_vars(NextPager)

(***************************************************************************)
(* C1: if the job is killed during a sliced fetch stage after at least one *)
(* slice has been checkpointed, then after a restart that runs to          *)
(* completion the stage's accumulated result equals the result of an       *)
(* uninterrupted run: every slice contributes its records exactly once.    *)
(***************************************************************************)
C1_ResumeEqualsUninterrupted ==
    jpc = "done" =>
        /\ \A st \in midkill \cap SearchStages : mem[st] = FullRuns(st, 1)
        /\ "commits_active_months" \in midkill =>
              mem["commits_active_months"] = FullCommits

(***************************************************************************)
(* C2: re-running a stage whose checkpoint was written by a completed run  *)
(* never re-invokes the stage's fetch function, whatever the completed     *)
(* payload, an empty list or set included.                                 *)
(***************************************************************************)
C2_CompletedStageNotRefetched ==
    refetch = {}

(***************************************************************************)
(* C3: whatever the point of cp_save(stage, payload) at which the job is   *)
(* killed, the next cp_load(stage, default) returns the previously saved   *)
(* payload of the stage, the new payload, or default; never a partially    *)
(* written payload.                                                        *)
(***************************************************************************)
C3_Allowed(n, v) ==
    \/ v = DefaultOf(n)
    \/ v = st_last[n]
    \/ n = st_name /\ v = st_data
    \/ n = st_name /\ v = st_prev

C3_LoadAfterCrash ==
    /\ st_pc = "crashed" =>
          \A n \in StoreStages : C3_Allowed(n, cp_load(fs, n, DefaultOf(n)))
    /\ st_loaded # <<>> => C3_Allowed(st_loaded[1], st_loaded[3])

\* a kill while the text of a second payload was partly written: the load
\* after it returned the previous payload, which is neither default nor new
C3_Witness ==
    /\ st_loaded # <<>>
    /\ st_loaded[1] = st_name
    /\ st_written > 0
    /\ st_written < Len(Dump(st_data))
    /\ st_prev # NoPayload
    /\ st_loaded[3] = st_prev
    /\ st_loaded[3] # st_data
    /\ st_loaded[3] # st_loaded[2]

(***************************************************************************)
(* C4: when 5xx answers exceed the retry bound the transport raises; it    *)
(* never returns a 5xx response to the caller as if it were a success.     *)
(***************************************************************************)
C4_NeverReturns5xx ==
    tr_pc = "returned" => resp.status < 500

(***************************************************************************)
(* C5: rate-limit waits are not counted against the 5xx retry budget: a    *)
(* 5xx response that is the j-th 5xx of the request, j <= max_retries, is  *)
(* retried whatever the number of rate-limited 403 responses before it.    *)
(***************************************************************************)
C5_RateLimitNotCounted ==
    (resp.status >= 500 /\ n5xx <= max_retries) => tr_pc = "request"

(***************************************************************************)
(* C6: the two sub-ranges of a split are disjoint and cover the range, so  *)
(* the ranges delegated to the capped paginator partition the original     *)
(* range: at every step each day of [start, end - 1] is in exactly one of  *)
(* the delegated and the pending ranges, and no record is yielded twice.   *)
(***************************************************************************)
C6_AllRanges == leaves \o work

C6_LeavesPartition ==
    sp_pc \in {"run", "done"} =>
        /\ \A d \in sp_start..(sp_end - 1) :
              Cardinality({i \in 1..Len(C6_AllRanges) :
                              C6_AllRanges[i][1] <= d /\ d <= C6_AllRanges[i][2]}) = 1
        /\ \A i \in 1..Len(C6_AllRanges) :
              /\ sp_start <= C6_AllRanges[i][1]
              /\ C6_AllRanges[i][1] <= C6_AllRanges[i][2]
              /\ C6_AllRanges[i][2] <= sp_end - 1
        /\ \A i, j \in 1..Len(yielded) :
              (i < j /\ yielded[i][1] = yielded[j][1]) => yielded[i][3] < yielded[j][2]

\* a finished run that split twice or more and yielded records of three leaves
C6_Witness ==
    /\ sp_pc = "done"
    /\ nsplits >= 2
    /\ Len(leaves) >= 3
    /\ Len(yielded) >= 3

(***************************************************************************)
(* C7: a range whose count is <= 1000 is not split, and the records        *)
(* yielded are exactly those search_items yields for the unsplit query, in *)
(* the same order.                                                         *)
(***************************************************************************)
C7_NoSplitSameRecords ==
    (sp_pc = "done" /\ SearchCount(sp_start, sp_end - 1) <= SearchCap) =>
        /\ nsplits = 0
        /\ leaves = << <<sp_start, sp_end - 1>> >>
        /\ yielded = Yield(<<>>, SearchItemsFrom(sp_start, sp_end - 1, 1))

\* a finished run over several days holding exactly 1000 records
C7_Witness ==
    /\ sp_pc = "done"
    /\ sp_end - sp_start >= 2
    /\ SearchCount(sp_start, sp_end - 1) = SearchCap
    /\ NumItems(yielded) = SearchCap
    /\ Len(yielded) >= 2

(***************************************************************************)
(* C8: when the count of the range exceeds 1000 the splitter splits at     *)
(* least once before delegating, every range handed to the capped          *)
(* paginator has count <= 1000 unless it is a single day, and the number   *)
(* of items returned is the sum over the leaves, not a truncated 1000.     *)
(***************************************************************************)
RECURSIVE C8_SumLeaves(_)
C8_SumLeaves(ls) ==
    IF ls = <<>> THEN 0
    ELSE Min(SearchCount(Head(ls)[1], Head(ls)[2]), SearchCap) + C8_SumLeaves(Tail(ls))

C8_SplitBeforeDelegate ==
    /\ \A i \in 1..Len(leaves) :
          \/ SearchCount(leaves[i][1], leaves[i][2]) <= SearchCap
          \/ leaves[i][1] = leaves[i][2]
    /\ (SearchCount(sp_start, sp_end - 1) > SearchCap /\ sp_end - 1 > sp_start /\ leaves # <<>>)
          => nsplits >= 1
    /\ (sp_pc = "done") => NumItems(yielded) = C8_SumLeaves(leaves)

(***************************************************************************)
(* C9: a search fetch over a window slice is exhaustive: once the prs      *)
(* stage of a run that was never interrupted has fetched a slice, every    *)
(* matching record of the slice is in prs, also when the slice holds more  *)
(* than 1000 records (spread over days of at most 1000 each).              *)
(***************************************************************************)
C9_RecordsOfSlice(l, s) ==
    LET idx == {i \in 1..Len(l) : l[i][1] = s}
    IN  IF idx = {} THEN 0 ELSE l[CHOOSE i \in idx : TRUE][2]

C9_SliceExhaustive ==
    (stops = 0 /\ jpc \in JobStages \cup {"finish", "done"}) =>
        \A s \in Slices :
            (jpc # "prs" \/ s < si) =>
                C9_RecordsOfSlice(mem["prs"], s) = srv.pr[s]

(***************************************************************************)
(* C10: for months_per_slice >= 1 the slices are in increasing order, each *)
(* slice is non-empty (slice start < slice end) and each slice's end is    *)
(* the next slice's start.                                                 *)
(***************************************************************************)
C10_SlicesContiguous ==
    /\ \A i \in 1..Len(out) : DateLT(out[i][1], out[i][2])
    /\ \A i \in 1..(Len(out) - 1) :
          /\ out[i][2] = out[i + 1][1]
          /\ DateLT(out[i][1], out[i + 1][1])

\* a returned slicing of three or more slices that crosses a year boundary
\* and whose last slice was clipped at end_first
C10_Witness ==
    /\ sl_pc = "returned"
    /\ Len(out) >= 3
    /\ sl_months >= 2
    /\ out[1][1].year < out[Len(out)][2].year
    /\ out[Len(out)][2] = end_first
    /\ out[Len(out)][2] # AddMonths(out[Len(out)][1], sl_months)

(***************************************************************************)
(* C11: for start < end the union of the slices is exactly [start, end):   *)
(* there is a slice, the first slice starts at start and the last slice    *)
(* ends at end, also when start or end is not the first day of a month     *)
(* and when both fall in the same month.                                   *)
(***************************************************************************)
C11_UnionIsWindow ==
    (sl_pc = "returned" /\ DateLT(sl_start, sl_end)) =>
        /\ out # <<>>
        /\ out[1][1] = sl_start
        /\ out[Len(out)][2] = sl_end

(***************************************************************************)
(* C12: when start and end are first-of-month dates N > 0 months apart,    *)
(* slicing with months_per_slice = m returns exactly ceil(N / m) slices,   *)
(* each starting on a first of a month; the window 2024-01-01..2024-04-01  *)
(* with m = 1 gives [Jan 1, Feb 1), [Feb 1, Mar 1), [Mar 1, Apr 1).        *)
(***************************************************************************)
C12_MonthsApart(a, b) == (b.year - a.year) * 12 + (b.month - a.month)

C12_SliceCount ==
    (sl_pc = "returned" /\ sl_start.day = 1 /\ sl_end.day = 1 /\ DateLT(sl_start, sl_end)) =>
        /\ Len(out) = (C12_MonthsApart(sl_start, sl_end) + sl_months - 1) \div sl_months
        /\ \A i \in 1..Len(out) : out[i][1].day = 1
        /\ (sl_start = Date(2024, 1, 1) /\ sl_end = Date(2024, 4, 1) /\ sl_months = 1) =>
              out = << <<Date(2024, 1, 1), Date(2024, 2, 1)>>,
                       <<Date(2024, 2, 1), Date(2024, 3, 1)>>,
                       <<Date(2024, 3, 1), Date(2024, 4, 1)>> >>

\* the returned slicing of 2024-01-01..2024-04-01 by single months
C12_Witness ==
    /\ sl_pc = "returned"
    /\ sl_impl = "list"
    /\ sl_start = Date(2024, 1, 1)
    /\ sl_end = Date(2024, 4, 1)
    /\ sl_months = 1
    /\ Len(out) = 3

(***************************************************************************)
(* C13: on a listing of P >= 1 non-empty pages with a "next" link on all   *)
(* but the last, and without failures, a cursor paginator sends exactly P  *)
(* requests, for the pages 1..P in order, and yields the records of every  *)
(* page once, in server order, each page before the next one is requested. *)
(***************************************************************************)
C13_Pages == (pg_total + PerPage - 1) \div PerPage

C13_CursorExhaustive ==
    (pg_impl \in CursorImpls /\ pg_total > 0 /\ pg_faults = 0 /\ ~pg_down) =>
        /\ Len(pg_out) = pg_reqs
        /\ \A i \in 1..Len(pg_out) : pg_out[i] = <<i, ItemsOnPage(pg_total, i)>>
        /\ pg_pc = "request" => pg_page = pg_reqs + 1
        /\ pg_pc = "done" => pg_reqs = C13_Pages
        /\ pg_pc \in {"request", "done"}

\* rest_paginated has read pages of 100, 100 and 37 records in 3 requests
C13_Witness ==
    /\ pg_impl = "rest_paginated"
    /\ pg_total = 237
    /\ pg_faults = 0
    /\ pg_pc = "done"
    /\ pg_reqs = 3
    /\ TotalItems(pg_out) = 237

(***************************************************************************)
(* C14: a search paginator never requests a page number above 10 and never *)
(* yields more than 1000 records for one query.                            *)
(***************************************************************************)
C14_SearchCapped ==
    pg_impl \in SearchImpls =>
        /\ pg_page <= MaxPage
        /\ TotalItems(pg_out) <= SearchCap

(***************************************************************************)
(* C15: when a search page request is answered with HTTP 422 the search    *)
(* paginator ends its sequence normally: no error reaches the caller and   *)
(* the records already yielded are kept.                                   *)
(***************************************************************************)
C15_422EndsNormally ==
    (pg_impl \in SearchImpls /\ pg_last = 422) => pg_pc = "done"

(***************************************************************************)
(* C19: no request loop runs forever on server faults: when the server     *)
(* answers every attempt with a 5xx, the fetch operation terminates.       *)
(***************************************************************************)
C19_TerminatesWhenDown ==
    pg_down ~> (pg_pc \in {"done", "raised"})

(***************************************************************************)
(* C16: an HTTP 4xx response that is not a rate-limit 403 makes the        *)
(* transport fail at once: the call raises with that response, and the     *)
(* request is not sent again (no retry, no backoff sleep).                 *)
(***************************************************************************)
C16_4xxFailsImmediately ==
    (resp.status >= 400 /\ resp.status < 500 /\ ~IsRateLimited(resp)) =>
        tr_pc = "raised"

\* a call that was retried after a 5xx and then raised on a 404
C16_Witness ==
    /\ tr_pc = "raised"
    /\ resp.status = 404
    /\ n5xx = 1
    /\ attempt = 2

(***************************************************************************)
(* C17: cp_load(stage, default) returns default when the stage has no      *)
(* checkpoint file or the file's text does not parse; it raises no error,  *)
(* and what it returns does not depend on the checkpoint file of any other *)
(* stage, corrupt or not.                                                  *)
(***************************************************************************)
C17_LoadDefaultsOnCorrupt ==
    st_loaded # <<>> =>
        LET name == st_loaded[1]
            default == st_loaded[2]
            v == st_loaded[3]
            text == fs[cp_path(name)]
        IN  /\ v # ParseError
            /\ text = NoFile => v = default
            /\ (text # NoFile /\ Parse(text) = ParseError) => v = default
            /\ \A other \in StoreStages \ {name} :
                  \A t \in CheckpointTexts \cup {NoFile} :
                      cp_load([fs EXCEPT ![cp_path(other)] = t], name, default) = v

\* review_done_idx was loaded from a file cut short, as its default 0, while
\* the prs checkpoint holds a list
C17_Witness ==
    /\ st_loaded = <<"review_done_idx", IntVal(0), IntVal(0)>>
    /\ fs[cp_path("review_done_idx")] = <<"[", "3", ",", " ">>
    /\ Parse(fs[cp_path("prs")]) = ListVal(<<3, 12>>)

C20_FallbackOnlySingleDay ==
    \A i \in 1..Len(leaves) :
        SearchCount(leaves[i][1], leaves[i][2]) > SearchCap => leaves[i][1] = leaves[i][2]


(***************************************************************************)
(* C21: the search queries of consecutive slices cover every instant       *)
(* exactly once: the created-range built for the slice [s, e) matches a    *)
(* record created at t exactly when s <= t < e, the records created during *)
(* the last calendar day of the slice included and those of the next slice *)
(* excluded.                                                               *)
(*                                                                         *)
(* The search service reads a..b as inclusive at both ends; a bound        *)
(* without a time part stands for its whole day, a bound with a time part  *)
(* for that instant.                                                       *)
(***************************************************************************)
C21_Matches(q, t) ==
    /\ \/ DateLT(q.from.date, t.date)
       \/ q.from.date = t.date /\ (q.from.hour = -1 \/ q.from.hour <= t.hour)
    /\ \/ DateLT(t.date, q.to.date)
       \/ q.to.date = t.date /\ (q.to.hour = -1 \/ t.hour <= q.to.hour)

\* creation instants probed for a slice: its first day, its last day and the
\* first day of the next slice, each at midnight and at noon
C21_Instants(s, e) ==
    {[date |-> d, hour |-> h] : d \in {s, PrevDay(e), e}, h \in {0, 12}}

\* the forms of the qualifier used after each slicer: iso_month_slices feeds
\* the isoformat form, the other slicers the date form
C21_Forms == IF sl_impl = "list" THEN {"isoformat", "date"} ELSE {"date"}

C21_QueryCoversSlice ==
    sl_pc = "returned" =>
        \A i \in 1..Len(out) : \A form \in C21_Forms :
            \A t \in C21_Instants(out[i][1], out[i][2]) :
                C21_Matches(CreatedQuery(form, out[i][1], out[i][2]), t)
                    <=> (DateLE(out[i][1], t.date) /\ DateLT(t.date, out[i][2]))

\* the same for the date form alone
C21_DateFormCoversSlice ==
    sl_pc = "returned" =>
        \A i \in 1..Len(out) :
            \A t \in C21_Instants(out[i][1], out[i][2]) :
                C21_Matches(CreatedQuery("date", out[i][1], out[i][2]), t)
                    <=> (DateLE(out[i][1], t.date) /\ DateLT(t.date, out[i][2]))


(***************************************************************************)
(* C22: in every script that collects logins from slices, the commit and   *)
(* PR fetch of a slice follows pagination until it is exhausted: when the  *)
(* slice holds more than 100 records the later pages are retrieved too.    *)
(* Stated for an undisturbed fetch of a listing within the search cap:     *)
(* when the fetch has ended, every page of the listing has been retrieved. *)
(***************************************************************************)
C22_SliceFetches == CursorImpls \cup SearchImpls \cup {"gh_get"}

C22_SliceFetchPaginates ==
    (/\ pg_impl \in C22_SliceFetches
     /\ pg_total <= SearchCap
     /\ pg_faults = 0
     /\ pg_pc = "done") =>
        /\ Len(pg_out) = C13_Pages
        /\ \A i \in 1..Len(pg_out) : pg_out[i] = <<i, ItemsOnPage(pg_total, i)>>

\* the same for the paginators alone, the single request of dedupe_profile
\* left out
C22_PaginatorsExhaust ==
    (/\ pg_impl \in CursorImpls \cup SearchImpls
     /\ pg_total <= SearchCap
     /\ pg_faults = 0
     /\ pg_pc = "done") =>
        /\ Len(pg_out) = C13_Pages
        /\ \A i \in 1..Len(pg_out) : pg_out[i] = <<i, ItemsOnPage(pg_total, i)>>


(***************************************************************************)
(* C23: on a rate-limited 403 whose reset header is R, received at clock   *)
(* now, the transport sleeps max(5, R - now + 1) seconds: at least 5 and   *)
(* strictly more than R - now; it then sends the same request again (the   *)
(* call is back at the top of its loop).                                   *)
(***************************************************************************)
C23_RateLimitWait ==
    (tr_sleep.why = "rate limit" /\ IsRateLimited(resp)) =>
        /\ tr_sleep.secs = Max(5, tr_sleep.reset - tr_sleep.now + 1)
        /\ tr_sleep.secs >= 5
        /\ tr_sleep.secs > tr_sleep.reset - tr_sleep.now
        /\ tr_pc = "request"

\* a rate-limited 403 whose reset lies 60 s ahead: the sleep is 61 s
C23_Witness ==
    /\ IsRateLimited(resp)
    /\ tr_sleep.why = "rate limit"
    /\ tr_sleep.reset = 1060
    /\ tr_sleep.now = 1000
    /\ tr_sleep.secs = 61
    /\ tr_pc = "request"


(***************************************************************************)
(* C26: the deterministic part of the backoff before the k-th consecutive  *)
(* 5xx retry is min(30, 2^k) seconds: it depends on the attempt number     *)
(* only, never decreases from one retry to the next and never exceeds 30.  *)
(* Stated for a call that has received 5xx responses only: the k-th of     *)
(* them is followed by a sleep of min(30, 2^k) seconds plus jitter.        *)
(***************************************************************************)
C26_BackoffSchedule ==
    (tr_pc = "request" /\ tr_sleep.why = "backoff" /\ n403 = 0) =>
        tr_sleep.secs = Min(30, 2^n5xx)

\* the part of the claim every transport meets: the backoff is at most 30
C26_BackoffAtMost30 ==
    tr_sleep.why = "backoff" => tr_sleep.secs <= 30

\* dedupe_email GH._get alone follows the schedule
C26_EmailSchedule ==
    (tr_impl = "email" /\ tr_pc = "request" /\ tr_sleep.why = "backoff" /\ n403 = 0) =>
        tr_sleep.secs = Min(30, 2^n5xx)


(***************************************************************************)
(* C24: a rate-limited 403 is never surfaced to the caller as an error:    *)
(* whatever the number of consecutive rate-limited responses, every fetch  *)
(* path, the user-profile fetch and the count query included, waits and    *)
(* sends the request again.                                                *)
(***************************************************************************)
C24_RateLimitNeverRaised ==
    pg_last = 403 => pg_pc \in {"sleep", "request"}

\* the same for every fetch path but the profile fetch of bot_filter_pattern
C24_OthersKeepWaiting ==
    (pg_last = 403 /\ pg_impl # "user_profile") => pg_pc \in {"sleep", "request"}

(***************************************************************************)
(* C25: a transient 5xx answer to the count query is retried with bounded  *)
(* backoff before any error is surfaced: after a single 5xx the query is   *)
(* sent again, so a success that follows yields the count.                 *)
(***************************************************************************)
C25_CountRetries5xx ==
    (pg_impl = "search_count" /\ pg_last = 500 /\ pg_reqs = 1) =>
        pg_pc \in {"sleep", "request"}

(***************************************************************************)
(* C27: the cursor paginator ends normally, without raising, when a page   *)
(* body is empty or is not a list.                                         *)
(***************************************************************************)
C27_EndsOnEmptyOrNotList ==
    (/\ pg_impl \in CursorImpls
     /\ pg_last = 200
     /\ pg_body = "unexpected" \/ ItemsOnPage(pg_total, pg_page) = 0) =>
        pg_pc = "done"

\* the empty page alone ends every cursor paginator normally
C27_EndsOnEmpty ==
    (/\ pg_impl \in CursorImpls
     /\ pg_last = 200
     /\ pg_body = "expected"
     /\ ItemsOnPage(pg_total, pg_page) = 0) =>
        pg_pc = "done"

(***************************************************************************)
(* C30: in the paginators that retry inline (rest_paginated, search_items) *)
(* a retry after a rate-limited 403 or a 5xx requests the same page again: *)
(* the pages fetched are exactly 1, 2, 3, ..., none skipped and none       *)
(* yielded twice, and the page requested next is the one after the last    *)
(* page yielded.                                                           *)
(***************************************************************************)
C30_InlineImpls == {"rest_paginated", "search_items"}

C30_RetrySamePage ==
    pg_impl \in C30_InlineImpls =>
        /\ \A i \in 1..Len(pg_out) : pg_out[i] = <<i, ItemsOnPage(pg_total, i)>>
        /\ pg_pc \in {"request", "sleep"} => pg_page = Len(pg_out) + 1

\* rest_paginated has yielded pages 1, 2, 3 of a listing of 237 records and
\* ended, after a rate-limited 403 and a 5xx on the way
C30_Witness ==
    /\ pg_impl = "rest_paginated"
    /\ pg_total = 237
    /\ pg_faults = 2
    /\ pg_pc = "done"
    /\ pg_out = <<<<1, 100>>, <<2, 100>>, <<3, 37>>>>
    /\ pg_reqs = 5


(***************************************************************************)
(* C28: the records yielded by the range splitter come out in              *)
(* chronological range order: every record of leaf range [a1, b1] is       *)
(* yielded before any record of leaf range [a2, b2] whenever b1 < a2.      *)
(***************************************************************************)
C28_InLeaf(day, l) == l[1] <= day /\ day <= l[2]

C28_ChronologicalOrder ==
    \A i, j \in 1..Len(yielded) : \A k, l \in 1..Len(leaves) :
        (/\ C28_InLeaf(yielded[i][1], leaves[k])
         /\ C28_InLeaf(yielded[j][1], leaves[l])
         /\ leaves[k][2] < leaves[l][1]) => i < j

\* a range was split and the splitter has ended after yielding records of
\* three different leaves
C28_Witness ==
    /\ sp_pc = "done"
    /\ nsplits >= 2
    /\ Len(leaves) >= 3
    /\ \E i, j, k \in 1..Len(yielded) :
          /\ C28_InLeaf(yielded[i][1], leaves[1])
          /\ C28_InLeaf(yielded[j][1], leaves[2])
          /\ C28_InLeaf(yielded[k][1], leaves[3])

(***************************************************************************)
(* C29: whenever the range splitter delegates a range whose count exceeds  *)
(* 1000 to the capped paginator (the unsplittable case), a warning or      *)
(* metric is emitted so that the caller can detect that records were       *)
(* dropped: something other than the retry notices and the progress line   *)
(* has been written.                                                       *)
(***************************************************************************)
C29_OverflowReported ==
    (\E k \in 1..Len(leaves) : SearchCount(leaves[k][1], leaves[k][2]) > SearchCap) =>
        sp_log \ {"retry", "progress"} # {}


(***************************************************************************)
(* C33: the month slicer terminates and returns a finite list for every    *)
(* start, end and months_per_slice >= 1: the cursor strictly advances on   *)
(* every iteration, the call returns, and the number of slices is at most  *)
(* the number of calendar months between start and end.                    *)
(***************************************************************************)
C33_MonthsBetween == Max(0, C12_MonthsApart(sl_start, sl_end))

C33_SlicerTerminates ==
    /\ <>(sl_pc = "returned")
    /\ [](Len(out) <= C33_MonthsBetween)
    /\ [][cur' # cur => DateLT(cur, cur')]_vars

\* a returned slicing by single months with as many slices as there are
\* months in the window
C33_Witness ==
    /\ sl_pc = "returned"
    /\ sl_months = 1
    /\ Len(out) = C33_MonthsBetween
    /\ Len(out) >= 3

(***************************************************************************)
(* C34: all month-slicing implementations compute the same function: for   *)
(* every (start, end, months_per_slice >= 1) the generator variants return *)
(* the sequence of (slice_start, slice_end) pairs of the list-building     *)
(* variant, and the single-month variant of dedupe_profile agrees with     *)
(* them for months_per_slice = 1.                                          *)
(***************************************************************************)
\* the list month_slices / iso_month_slices builds from cursor c on
RECURSIVE C34_ListSlices(_, _, _)
C34_ListSlices(c, e1, months) ==
    IF ~DateLT(c, e1) THEN <<>>
    ELSE LET n0 == AddMonths(c, months)
             nxt == IF DateLT(e1, n0) THEN e1 ELSE n0
         IN  <<<<c, nxt>>>> \o C34_ListSlices(nxt, e1, months)

C34_SlicersAgree ==
    sl_pc = "returned" =>
        out = C34_ListSlices(FirstOfMonth(sl_start), FirstOfMonth(sl_end), sl_months)

\* the generator variant has returned three slices, the last one clipped,
\* over a window that crosses the year boundary
C34_Witness ==
    /\ sl_pc = "returned"
    /\ sl_impl = "gen"
    /\ sl_months = 2
    /\ Len(out) = 3
    /\ out[1][1].year < out[3][2].year
    /\ out[3][2] # AddMonths(out[3][1], sl_months)


(***************************************************************************)
(* C32: the range-splitting recursion terminates for every pair of dates   *)
(* (start, end), start >= end included, and every outcome of the count     *)
(* query: each recursive call is on a strictly shorter range and the       *)
(* recursion depth is bounded by the number of days in the range.          *)
(***************************************************************************)
C32_Days(r) == r[2] - r[1] + 1

C32_SplitterTerminates ==
    /\ <>(sp_pc \in {"done", "raised"})
    /\ [][RecurseSplit =>
            /\ C32_Days(work'[1]) >= 1 /\ C32_Days(work'[1]) < C32_Days(work[1])
            /\ C32_Days(work'[2]) >= 1 /\ C32_Days(work'[2]) < C32_Days(work[1])]_vars
    /\ [](nsplits <= Max(0, sp_end - sp_start - 1))
    /\ [](Len(work) <= Max(1, sp_end - sp_start))
    /\ [](sp_start >= sp_end => nsplits = 0)

\* a window of five days, each over the cap, was split until no range
\* could be split further, and the splitter has ended
C32_Witness ==
    /\ sp_pc = "done"
    /\ sp_end - sp_start = 5
    /\ \A d \in sp_start..(sp_end - 1) : recs[d] > SearchCap
    /\ nsplits >= 2
    /\ Len(leaves) = nsplits + 1

\* an inverted window whose count the server reports over the cap was
\* handed to search_items unsplit, and the splitter has ended
C32_InvertedEnds ==
    /\ sp_pc = "done"
    /\ sp_end < sp_start
    /\ leaves = << <<sp_start, sp_end - 1>> >>


(***************************************************************************)
(* C35: in collect_contributors every login of final_unique_humans is a    *)
(* member of raw_human_accounts and not a member of bot_accounts, for      *)
(* every sequence of fetched commits: the email-based alias mapping never  *)
(* brings a bot login or an "unknown:<email>" placeholder into the final   *)
(* set.                                                                    *)
(***************************************************************************)
C35_FinalAreHumans ==
    dd_pc = "returned" =>
        /\ final_logins \subseteq human_logins
        /\ final_logins \cap bot_logins = {}

(***************************************************************************)
(* C36: in collect_contributors the email-based de-duplication is resolved *)
(* to a fixed point: no login of final_unique_humans is itself mapped to a *)
(* different canonical login by the alias map.                             *)
(***************************************************************************)
C36_AliasFixedPoint ==
    dd_pc = "returned" =>
        \A lg \in final_logins : alias_map[lg] = lg

(***************************************************************************)
(* C31: at every point where the review stage can be killed, the persisted *)
(* pair is consistent: review_hours holds exactly the samples of the pull  *)
(* requests with index below review_done_idx; and so a run that was killed *)
(* and resumed ends with the review_hours of an uninterrupted run.         *)
(***************************************************************************)
C31_Samples(k) == SelectSeq([i \in 1..k |-> i - 1], HasReview)

C31_ResumedEqualsUninterrupted ==
    rv_pc = "done" => cp_review_hours = C31_Samples(scan_prs)

C31_PairConsistent ==
    /\ cp_review_hours = C31_Samples(cp_review_done_idx)
    /\ C31_ResumedEqualsUninterrupted

(***************************************************************************)
(* C37: every active login gets exactly one row, with a bucket among Key,  *)
(* Frequent, Occasional and Newcomer, never Inactive; the dormant logins   *)
(* are disjoint from the active ones; and the bucket counts add up to the  *)
(* number of distinct logins overall (active or historical).               *)
(***************************************************************************)
C37_Total ==
    bucket_counts["Key"] + bucket_counts["Frequent"] + bucket_counts["Occasional"]
    + bucket_counts["Newcomer"] + bucket_counts["Inactive"] + bucket_counts["Dormant"]

C37_BucketsPartition ==
    /\ \A r \in rows :
          /\ r[1] \in active_users
          /\ r[2] \in {"Key", "Frequent", "Occasional", "Newcomer"}
          /\ \A q \in rows : q[1] = r[1] => q = r
    /\ bucket_counts["Inactive"] = 0
    /\ bk_pc = "done" =>
          /\ \A l \in active_users : \E r \in rows : r[1] = l
          /\ dormant_users \cap active_users = {}
          /\ dormant_users \cup active_users = historical_before_since \cup active_users
          /\ C37_Total = Cardinality(active_users \cup historical_before_since)
          /\ \A b \in {"Key", "Frequent", "Occasional", "Newcomer"} :
                bucket_counts[b] = Cardinality({r \in rows : r[2] = b})

\* a historical login with a single commit and no merged pull request, which
\* the threshold chain leaves Inactive, next to a dormant login
C37_Witness ==
    /\ bk_pc = "done"
    /\ commits_by["amy"] = 1 /\ merged_prs_by["amy"] = 0
    /\ "amy" \in historical_before_since
    /\ <<"amy", "Occasional">> \in rows
    /\ dormant_users = {"bob"}

====
